---- MODULE Spec2Model ----
(***************************************************************************)
(* A model of hera_cal's absolute calibration (hera_cal/abscal.py) and of  *)
(* the helpers of hera_cal/utils.py it relies on.                          *)
(*                                                                         *)
(* Complex numbers are modelled exactly on the multiplicative group        *)
(*     { sqrt(2)^a * i^p : a \in Int, p \in 0..3 }                         *)
(* as records [a, p]: products, quotients and conjugates stay inside the   *)
(* group, so gain composition is computed, not assumed.  Floating point    *)
(* rounding is not modelled: equalities are those of exact arithmetic.     *)
(*                                                                         *)
(* Several specifications share the module; each one drives the variables  *)
(* of one part of the program and leaves the others idle:                  *)
(*   SpecMerge                merge_gains                                  *)
(*   Spec, FairSpec           post_redcal_abscal                           *)
(*   SpecLogcal               abs_amp_logcal, amp_logcal, phs_logcal,      *)
(*                            TT_phs_logcal, fill_dict_nans                *)
(*   SpecEdge                 fft_dly, global_phase_slope_logcal edge_cut  *)
(*   SpecObj                  AbsCal: construction, the solver methods and *)
(*                            the result properties                        *)
(*   SpecCut                  cut_bls                                      *)
(*   SpecMatch                Baseline, match_red_baselines, reverse_bl    *)
(*   SpecAvg                  avg_data_across_red_bls                      *)
(*   SpecTime                 get_d2m_time_map                             *)
(*   SpecRun                  post_redcal_abscal_run                       *)
(*   SpecDelay                delay_lincal, delay_slope_lincal             *)
(*   SpecWaterfall            frf.timeavg_waterfall                        *)
(*   SpecBaselines            match_baselines                              *)
(*   SpecSolvers              the six function-level solvers together      *)
(***************************************************************************)
EXTENDS Integers, Sequences, FiniteSets, TLC

VARIABLES
    mg_in, mg_out,                                  \* merge_gains: arguments, outcome
    pc, iter, data, data0, delta, gains_here, hist, log, params,   \* post_redcal_abscal
    lc_in, lc_out,                                  \* the logcal solvers and fill_dict_nans
    ff_in, ff_out,                                  \* edge_cut handling
    ac_in, ac_obj,                                  \* AbsCal: constructor arguments, the object
    cb_in, cb_out,                                  \* cut_bls
    mr_in, mr_out,                                  \* baseline matching, reverse_bl
    av_in, av_out,                                  \* avg_data_across_red_bls
    tm_in, tm_out,                                  \* get_d2m_time_map
    rn_in, rn_pc, rn_out,                           \* post_redcal_abscal_run
    dl_in, dl_out,                                  \* delay_lincal, delay_slope_lincal
    ta_in, ta_out,                                  \* timeavg_waterfall
    mb_in, mb_out                                   \* match_baselines

vars == <<mg_in, mg_out, pc, iter, data, data0, delta, gains_here, hist, log, params,
          lc_in, lc_out, ff_in, ff_out, ac_in, ac_obj, cb_in, cb_out, mr_in, mr_out,
          av_in, av_out, tm_in, tm_out, rn_in, rn_pc, rn_out,
          dl_in, dl_out, ta_in, ta_out, mb_in, mb_out>>

mergeVars == <<mg_in, mg_out>>
abscalVars == <<pc, iter, data, data0, delta, gains_here, hist, log, params>>
logcalVars == <<lc_in, lc_out>>
edgeVars == <<ff_in, ff_out>>
objVars == <<ac_in, ac_obj>>
cutVars == <<cb_in, cb_out>>
matchVars == <<mr_in, mr_out>>
avgVars == <<av_in, av_out>>
timeVars == <<tm_in, tm_out>>
runVars == <<rn_in, rn_pc, rn_out>>
delayVars == <<dl_in, dl_out>>
waterfallVars == <<ta_in, ta_out>>
baselineVars == <<mb_in, mb_out>>

Idle == [status |-> "idle"]

IdleMerge == mg_in = Idle /\ mg_out = Idle
IdleAbscal ==
    /\ pc = "idle" /\ iter = 0 /\ data = Idle /\ data0 = Idle /\ delta = Idle
    /\ gains_here = Idle /\ hist = <<>> /\ log = <<>> /\ params = Idle
IdleLogcal == lc_in = Idle /\ lc_out = Idle
IdleEdge == ff_in = Idle /\ ff_out = Idle
IdleObj == ac_in = Idle /\ ac_obj = Idle
IdleCut == cb_in = Idle /\ cb_out = Idle
IdleMatch == mr_in = Idle /\ mr_out = Idle
IdleAvg == av_in = Idle /\ av_out = Idle
IdleTime == tm_in = Idle /\ tm_out = Idle
IdleRun == rn_in = Idle /\ rn_pc = Idle /\ rn_out = Idle
IdleDelay == dl_in = Idle /\ dl_out = Idle
IdleWaterfall == ta_in = Idle /\ ta_out = Idle
IdleBaselines == mb_in = Idle /\ mb_out = Idle
IdleLate == IdleDelay /\ IdleWaterfall /\ IdleBaselines
lateVars == <<delayVars, waterfallVars, baselineVars>>

\* what each specification leaves idle: the variables of all the others
IdleHelpers == IdleObj /\ IdleCut /\ IdleMatch /\ IdleAvg /\ IdleTime /\ IdleRun
helperVars == <<objVars, cutVars, matchVars, avgVars, timeVars, runVars>>
IdleSolvers == IdleMerge /\ IdleAbscal /\ IdleLogcal /\ IdleEdge
solverVars == <<mergeVars, abscalVars, logcalVars, edgeVars>>

IdleButMerge == IdleAbscal /\ IdleLogcal /\ IdleEdge /\ IdleHelpers /\ IdleLate
butMerge == <<abscalVars, logcalVars, edgeVars, helperVars, lateVars>>
IdleButAbscal == IdleMerge /\ IdleLogcal /\ IdleEdge /\ IdleHelpers /\ IdleLate
butAbscal == <<mergeVars, logcalVars, edgeVars, helperVars, lateVars>>
IdleButLogcal == IdleMerge /\ IdleAbscal /\ IdleEdge /\ IdleHelpers /\ IdleLate
butLogcal == <<mergeVars, abscalVars, edgeVars, helperVars, lateVars>>
IdleButEdge == IdleMerge /\ IdleAbscal /\ IdleLogcal /\ IdleHelpers /\ IdleLate
butEdge == <<mergeVars, abscalVars, logcalVars, helperVars, lateVars>>
IdleButObj == IdleSolvers /\ IdleCut /\ IdleMatch /\ IdleAvg /\ IdleTime /\ IdleRun /\ IdleLate
butObj == <<solverVars, cutVars, matchVars, avgVars, timeVars, runVars, lateVars>>
IdleButCut == IdleSolvers /\ IdleObj /\ IdleMatch /\ IdleAvg /\ IdleTime /\ IdleRun /\ IdleLate
butCut == <<solverVars, objVars, matchVars, avgVars, timeVars, runVars, lateVars>>
IdleButMatch == IdleSolvers /\ IdleObj /\ IdleCut /\ IdleAvg /\ IdleTime /\ IdleRun /\ IdleLate
butMatch == <<solverVars, objVars, cutVars, avgVars, timeVars, runVars, lateVars>>
IdleButAvg == IdleSolvers /\ IdleObj /\ IdleCut /\ IdleMatch /\ IdleTime /\ IdleRun /\ IdleLate
butAvg == <<solverVars, objVars, cutVars, matchVars, timeVars, runVars, lateVars>>
IdleButTime == IdleSolvers /\ IdleObj /\ IdleCut /\ IdleMatch /\ IdleAvg /\ IdleRun /\ IdleLate
butTime == <<solverVars, objVars, cutVars, matchVars, avgVars, runVars, lateVars>>
IdleButRun == IdleSolvers /\ IdleObj /\ IdleCut /\ IdleMatch /\ IdleAvg /\ IdleTime /\ IdleLate
butRun == <<solverVars, objVars, cutVars, matchVars, avgVars, timeVars, lateVars>>
IdleButDelay == IdleSolvers /\ IdleHelpers /\ IdleWaterfall /\ IdleBaselines
butDelay == <<solverVars, helperVars, waterfallVars, baselineVars>>
IdleButWaterfall == IdleSolvers /\ IdleHelpers /\ IdleDelay /\ IdleBaselines
butWaterfall == <<solverVars, helperVars, delayVars, baselineVars>>
IdleButBaselines == IdleSolvers /\ IdleHelpers /\ IdleDelay /\ IdleWaterfall
butBaselines == <<solverVars, helperVars, delayVars, waterfallVars>>

(***************************************************************************)
(* Exact complex arithmetic on sqrt(2)^a * i^p.                            *)
(***************************************************************************)
C(a, p) == [a |-> a, p |-> p]
COne == C(0, 0)
CMul(x, y) == C(x.a + y.a, (x.p + y.p) % 4)
CConj(x) == C(x.a, (4 - x.p) % 4)
CInv(x) == C(0 - x.a, (4 - x.p) % 4)
CDiv(x, y) == CMul(x, CInv(y))

\* the sign of cos(p*pi/2) and of sin(p*pi/2)
ReSign(p) == CASE p = 0 -> 1 [] p = 2 -> -1 [] OTHER -> 0
ImSign(p) == CASE p = 1 -> 1 [] p = 3 -> -1 [] OTHER -> 0

\* s1 * sqrt(2)^a1 < s2 * sqrt(2)^a2, for signs s1, s2 in {-1, 0, 1}
SignedLess(s1, a1, s2, a2) ==
    \/ s1 < s2
    \/ s1 = s2 /\ s1 = 1 /\ a1 < a2
    \/ s1 = s2 /\ s1 = -1 /\ a1 > a2
SignedEq(s1, a1, s2, a2) == s1 = s2 /\ (s1 = 0 \/ a1 = a2)

\* numpy's order of complex numbers: by real part, then by imaginary part
CLess(x, y) ==
    \/ SignedLess(ReSign(x.p), x.a, ReSign(y.p), y.a)
    \/ /\ SignedEq(ReSign(x.p), x.a, ReSign(y.p), y.a)
       /\ SignedLess(ImSign(x.p), x.a, ImSign(y.p), y.a)

Range(s) == {s[n] : n \in DOMAIN s}

(***************************************************************************)
(* merge_gains (abscal.py 905-945).  A gain or flag dictionary is a        *)
(* function from (ant, pol) keys to arrays; an array is a record           *)
(* [dtype, v] with v the sequence of its samples.  A Python scalar         *)
(* default (True, 1.0) is a record with dtype "scalar_bool" or             *)
(* "scalar_float".                                                         *)
(***************************************************************************)
GainKeys == {<<0, "Jee">>, <<1, "Jee">>}

BoolArrays == {[dtype |-> "bool", v |-> <<FALSE, FALSE>>],
               [dtype |-> "bool", v |-> <<TRUE, FALSE>>],
               [dtype |-> "bool", v |-> <<FALSE, TRUE>>]}
ComplexArrays == {[dtype |-> "complex", v |-> <<C(0, 0), C(2, 0)>>],
                  [dtype |-> "complex", v |-> <<C(0, 1), C(-2, 3)>>],
                  [dtype |-> "complex", v |-> <<C(1, 2), C(0, 0)>>]}

MaxGains == 2

DictsOf(arrays) == UNION {[ks -> arrays] : ks \in SUBSET GainKeys}

RECURSIVE ListsOf(_, _)
ListsOf(S, n) == IF n = 0 THEN {<<>>} ELSE {Append(l, x) : l \in ListsOf(S, n - 1), x \in S}

\* operator.add on numpy bool arrays (logical or), broadcasting a Python
\* True.  True + True is the Python int 2, and an int plus a bool array is
\* an integer array: the int plus 0 or 1
AsInt(b) == IF b THEN 1 ELSE 0
PyAdd(x, y) ==
    CASE x.dtype = "bool" /\ y.dtype = "bool" ->
            [dtype |-> "bool", v |-> [s \in DOMAIN x.v |-> x.v[s] \/ y.v[s]]]
      [] x.dtype = "bool" /\ y.dtype = "scalar_bool" ->
            [dtype |-> "bool", v |-> [s \in DOMAIN x.v |-> x.v[s] \/ y.v]]
      [] x.dtype = "scalar_bool" /\ y.dtype = "bool" ->
            [dtype |-> "bool", v |-> [s \in DOMAIN y.v |-> x.v \/ y.v[s]]]
      [] x.dtype = "scalar_bool" /\ y.dtype = "scalar_bool" ->
            [dtype |-> "scalar_int", v |-> AsInt(x.v) + AsInt(y.v)]
      [] x.dtype = "scalar_int" /\ y.dtype = "scalar_bool" ->
            [dtype |-> "scalar_int", v |-> x.v + AsInt(y.v)]
      [] x.dtype = "scalar_int" /\ y.dtype = "bool" ->
            [dtype |-> "int", v |-> [s \in DOMAIN y.v |-> x.v + AsInt(y.v[s])]]
      [] x.dtype = "int" /\ y.dtype = "bool" ->
            [dtype |-> "int", v |-> [s \in DOMAIN x.v |-> x.v[s] + AsInt(y.v[s])]]
      [] x.dtype = "int" /\ y.dtype = "scalar_bool" ->
            [dtype |-> "int", v |-> [s \in DOMAIN x.v |-> x.v[s] + AsInt(y.v)]]

\* operator.mul on complex arrays, broadcasting a Python 1.0
PyMul(x, y) ==
    CASE x.dtype = "complex" /\ y.dtype = "complex" ->
            [dtype |-> "complex", v |-> [s \in DOMAIN x.v |-> CMul(x.v[s], y.v[s])]]
      [] x.dtype = "complex" /\ y.dtype = "scalar_float" ->
            [dtype |-> "complex", v |-> [s \in DOMAIN x.v |-> CMul(x.v[s], y.v)]]
      [] x.dtype = "scalar_float" /\ y.dtype = "complex" ->
            [dtype |-> "complex", v |-> [s \in DOMAIN y.v |-> CMul(x.v, y.v[s])]]
      [] OTHER -> [dtype |-> "scalar_float", v |-> CMul(x.v, y.v)]

\* functools.reduce(op, seq) for a non-empty seq: a left fold
RECURSIVE ReduceAdd(_)
ReduceAdd(seq) ==
    IF Len(seq) = 1 THEN seq[1]
    ELSE PyAdd(ReduceAdd(SubSeq(seq, 1, Len(seq) - 1)), seq[Len(seq)])
RECURSIVE ReduceMul(_)
ReduceMul(seq) ==
    IF Len(seq) = 1 THEN seq[1]
    ELSE PyMul(ReduceMul(SubSeq(seq, 1, Len(seq) - 1)), seq[Len(seq)])

\* g.get(k, default)
DictGet(g, k, default) == IF k \in DOMAIN g THEN g[k] ELSE default

MergeKeysUnionAlways(gains, merge_shared) ==
    UNION {DOMAIN gains[n] : n \in DOMAIN gains}
MergeKeysSharedAlways(gains, merge_shared) ==
    {k \in DOMAIN gains[1] : \A n \in DOMAIN gains : k \in DOMAIN gains[n]}

\* lines 924-928: the keys of the result
MergeKeys(gains, merge_shared) ==
    IF merge_shared
    THEN {k \in DOMAIN gains[1] : \A n \in DOMAIN gains : k \in DOMAIN gains[n]}
    ELSE UNION {DOMAIN gains[n] : n \in DOMAIN gains}

\* lines 933-936: flags or gains, from the first entry of the first dictionary
FedFlags(gains) == (gains[1][CHOOSE k \in DOMAIN gains[1] : TRUE]).dtype = "bool"

\* lines 930-945
merge_gains(gains, merge_shared) ==
    IF DOMAIN gains[1] = {}
    THEN [status |-> "IndexError"]     \* list(gains[0].keys())[0] of an empty dictionary
    ELSE LET keys == MergeKeys(gains, merge_shared)
             fedflags == FedFlags(gains)
         IN [status |-> "ok",
             fedflags |-> fedflags,
             value |-> [k \in keys |->
                 IF fedflags
                 THEN ReduceAdd([n \in DOMAIN gains |->
                          DictGet(gains[n], k, [dtype |-> "scalar_bool", v |-> TRUE])])
                 ELSE ReduceMul([n \in DOMAIN gains |->
                          DictGet(gains[n], k, [dtype |-> "scalar_float", v |-> COne])])]]

InitMerge ==
    /\ \E n \in 1..MaxGains, arrays \in {BoolArrays, ComplexArrays}, shared \in BOOLEAN :
         \E gains \in ListsOf(DictsOf(arrays), n) :
            mg_in = [status |-> "args", gains |-> gains, merge_shared |-> shared]
    /\ mg_out = Idle
    /\ IdleButMerge

CallMergeGains ==
    /\ mg_in.status = "args" /\ mg_out.status = "idle"
    /\ mg_out' = merge_gains(mg_in.gains, mg_in.merge_shared)
    /\ UNCHANGED <<mg_in, butMerge>>

NextMerge == CallMergeGains

SpecMerge == InitMerge /\ [][NextMerge]_vars

\* the product of the samples s of key k over the dictionaries n..Len(gains)
RECURSIVE ProductFrom(_, _, _, _)
ProductFrom(gains, k, s, n) ==
    IF n > Len(gains) THEN COne
    ELSE CMul(gains[n][k].v[s], ProductFrom(gains, k, s, n + 1))

\* C1: merge_gains(gains, merge_shared=True) returns exactly the keys that
\* every input dictionary has; the value at a key is, sample by sample, the
\* product of the inputs' samples for gains and their logical OR for flags.
C1_MergeShared ==
    (mg_out.status = "ok" /\ mg_in.merge_shared) =>
        LET gains == mg_in.gains
            res == mg_out.value
        IN /\ \A k \in GainKeys :
                 (k \in DOMAIN res) <=> (\A n \in DOMAIN gains : k \in DOMAIN gains[n])
           /\ \A k \in DOMAIN res : \A s \in DOMAIN gains[1][k].v :
                 IF gains[1][k].dtype = "bool"
                 THEN res[k].v[s] = (\E n \in DOMAIN gains : gains[n][k].v[s])
                 ELSE res[k].v[s] = ProductFrom(gains, k, s, 1)

\* two dictionaries with different key sets are merged on their one shared key
C1_Witness ==
    /\ mg_out.status = "ok" /\ mg_in.merge_shared
    /\ Len(mg_in.gains) >= 2
    /\ DOMAIN mg_in.gains[1] # DOMAIN mg_in.gains[2]
    /\ Cardinality(DOMAIN mg_out.value) = 1

\* the dictionaries of the list that have key k
Holders(gains, k) == {n \in DOMAIN gains : k \in DOMAIN gains[n]}
\* the product of sample s of key k over the dictionaries of ns
RECURSIVE ProductOver(_, _, _, _)
ProductOver(gains, k, s, ns) ==
    IF ns = {} THEN COne
    ELSE LET n == CHOOSE x \in ns : TRUE
         IN CMul(gains[n][k].v[s], ProductOver(gains, k, s, ns \ {n}))
\* sample s of a merged flag array is set: True, or a non-zero count
Flagged(x, s) == IF x.dtype = "bool" THEN x.v[s] ELSE x.v[s] # 0

\* C29: merge_gains(gains, merge_shared=False) returns the union of all
\* input keys; a gain dictionary that lacks a key contributes the identity
\* 1.0 to that key's product, a flag dictionary that lacks a key contributes
\* True, so a flag key missing from any one input is flagged at every
\* sample of the result.
C29_MergeAll ==
    (mg_out.status = "ok" /\ ~mg_in.merge_shared) =>
        LET gains == mg_in.gains
            res == mg_out.value
        IN /\ DOMAIN res = UNION {DOMAIN gains[n] : n \in DOMAIN gains}
           /\ \A k \in DOMAIN res : \A s \in DOMAIN res[k].v :
                 IF mg_out.fedflags
                 THEN IF Holders(gains, k) # DOMAIN gains
                      THEN Flagged(res[k], s)
                      ELSE res[k].v[s] = (\E n \in DOMAIN gains : gains[n][k].v[s])
                 ELSE res[k].v[s] = ProductOver(gains, k, s, Holders(gains, k))

\* a flag key that only the second dictionary has: an unflagged sample of
\* it comes out flagged
C29_Witness ==
    /\ mg_out.status = "ok" /\ ~mg_in.merge_shared /\ Len(mg_in.gains) = 2
    /\ mg_out.fedflags
    /\ \E k \in DOMAIN mg_in.gains[2] \ DOMAIN mg_in.gains[1] :
          ~mg_in.gains[2][k].v[1] /\ mg_out.value[k].v[1] = TRUE

(***************************************************************************)
(* post_redcal_abscal (abscal.py 2989-3066).  One baseline (0, 1, 'ee'),   *)
(* gains for the antennas of rc_flags, waterfalls with three integrations  *)
(* and one channel.  What a solver returns depends on numerics that are    *)
(* outside the claims about the controller, so each solve draws its gains  *)
(* from the solutions that solver can produce.                             *)
(***************************************************************************)
Ants == {<<0, "Jee">>, <<1, "Jee">>}
Bls == {<<0, 1, "ee">>}

\* utils.split_bl: the two antenna keys of a baseline key
SplitBl(bl) == <<(<<bl[1], "Jee">>), (<<bl[2], "Jee">>)>>

Ones == <<COne, COne, COne>>
UnitGains == [ant \in Ants |-> Ones]
\* before line 3027 neither gains_here nor abscal_delta_gains is bound
NoGains == [ant \in {} |-> Ones]

\* abs_amp_logcal(return_gains=True): exp(eta) of the antenna's polarization,
\* the same real waterfall for every antenna of that polarization (line 130)
AmpSolutions == {UnitGains, [ant \in Ants |-> <<C(2, 0), COne, C(2, 0)>>]}

\* the slope and tip-tilt solvers return unit-modulus gains
PhaseSolutions ==
    {UnitGains,
     [ant \in Ants |-> IF ant[1] = 0 THEN Ones ELSE <<C(0, 1), C(0, 2), C(0, 1)>>]}

DataInputs == {[bl \in Bls |-> <<C(2, 1), C(0, 2), C(4, 3)>>]}

MaxIter == 2
ConvCrits4 == {0, 1, 100}      \* 4 * phs_conv_crit^2

\* np.median(gain, axis=0) of an odd number of integrations: the middle one
\* in numpy's order of complex numbers
MedianOverTime(w) ==
    CHOOSE m \in Range(w) :
        /\ 2 * Cardinality({t \in DOMAIN w : CLess(w[t], m)}) < Len(w)
        /\ 2 * Cardinality({t \in DOMAIN w : CLess(m, w[t])}) < Len(w)

\* line 3037: np.ones_like(gain) * np.median(gain, axis=0, keepdims=True)
TimeAverage(g) == [ant \in DOMAIN g |-> [t \in DOMAIN g[ant] |-> MedianOverTime(g[ant])]]

\* apply_cal.calibrate_in_place: every baseline with a gain for both of its
\* antennas is divided ('divide') or multiplied by g_i * conj(g_j)
calibrate_in_place(d, g, gain_convention) ==
    [bl \in DOMAIN d |->
        LET ai == SplitBl(bl)[1]
            aj == SplitBl(bl)[2]
        IN IF ai \in DOMAIN g /\ aj \in DOMAIN g
           THEN [t \in DOMAIN d[bl] |->
                    LET gg == CMul(g[ai][t], CConj(g[aj][t]))
                    IN IF gain_convention = "divide" THEN CDiv(d[bl][t], gg)
                       ELSE CMul(d[bl][t], gg)]
           ELSE d[bl]]

AccumulateOverwrite(acc, g) == [ant \in Ants |-> g[ant]]

\* lines 3038, 3044, 3049, 3059: {ant: abscal_delta_gains[ant] * gains_here[ant]}
Accumulate(acc, g) ==
    [ant \in Ants |-> [t \in DOMAIN g[ant] |-> CMul(acc[ant][t], g[ant][t])]]

\* 4 * |g - 1|^2 for g = 2^h * i^p with h >= -1
Dist4(g) ==
    LET r2 == IF g.a < 0 THEN 1 ELSE 2 * 2 ^ (g.a \div 2)      \* 2 * |g|
    IN CASE g.p = 0 -> (r2 - 2) * (r2 - 2)
         [] g.p = 2 -> (r2 + 2) * (r2 + 2)
         [] OTHER -> r2 * r2 + 4

RECURSIVE SumSeq(_)
SumSeq(s) == IF s = <<>> THEN 0 ELSE s[1] + SumSeq(Tail(s))

\* lines 3051, 3061: the norm over antennas and integrations of gains_here - 1
\* (its median over the one channel), as 4 * crit^2
Crit4(g) ==
    SumSeq([t \in 1..3 |-> Dist4(g[<<0, "Jee">>][t]) + Dist4(g[<<1, "Jee">>][t])])

ConvergedNever(g, conv4) == FALSE

\* lines 3053, 3063: crit < phs_conv_crit
Converged(g, conv4) == Crit4(g) < conv4

LoopContinuesOffByOne(i, max_iter) == i <= max_iter

\* lines 3046, 3057: for i in range(phs_max_iter)
LoopContinues(i, max_iter) == i < max_iter

TimeAvgOnlyOnce == <<TRUE>>

\* line 3033: for time_avg in [True, False]
TimeAvgOrder == <<TRUE, FALSE>>

\* utils.echo (utils.py 242-249): prints only when verbose
echo(lg, msgs, verbose) == IF verbose THEN lg \o msgs ELSE lg

Msg(m) == [msg |-> m, val |-> 0]
LinsolveMsgs(name) ==
    <<Msg("...configuring linsolve data for " \o name), Msg("...running linsolve"),
      Msg("...finished linsolve")>>
SolverMsgs(solver) ==
    CASE solver = "dft" ->
            <<Msg("...configuring global_phase_slope_logcal for the dft algorithm")>>
      [] solver = "linfit" ->
            <<Msg("...configuring global_phase_slope_logcal for the linfit algorithm"),
              Msg("...running linsolve"), Msg("...finished linsolve")>>
      [] OTHER -> LinsolveMsgs(solver)
CritMsg(solver, g) ==
    [msg |-> (IF solver = "linfit" THEN "global_phase_slope_logcal"
              ELSE "TT_phs_logcal") \o " convergence criterion: ",
     val |-> Crit4(g)]

\* where control goes when the loop of `stage` is entered or left
EnterTT(max_iter) == IF LoopContinues(0, max_iter) THEN "tt" ELSE "done"
EnterLinfit(max_iter) == IF LoopContinues(0, max_iter) THEN "linfit" ELSE EnterTT(max_iter)

InitAbscal ==
    /\ pc = "amp" /\ iter = 0
    /\ data0 \in DataInputs /\ data = data0
    /\ delta = NoGains /\ gains_here = NoGains
    /\ hist = <<>> /\ log = <<>>
    /\ params \in [phs_max_iter : 0..MaxIter, conv4 : ConvCrits4,
                   gain_convention : {"divide", "multiply"}, verbose : BOOLEAN]
    /\ IdleButAbscal

\* what every solve does after its solver returned g (raw): record the call,
\* compose g into abscal_delta_gains, calibrate the working data in place
SolveStep(solver, raw, g, time_avg, acc) ==
    /\ gains_here' = g
    /\ hist' = Append(hist, [solver |-> solver, time_avg |-> time_avg,
                             seen |-> data, raw |-> raw, gains |-> g])
    /\ delta' = acc
    /\ data' = calibrate_in_place(data, g, params.gain_convention)

\* lines 3026-3029
AbsAmpStep ==
    /\ pc = "amp"
    /\ \E g \in AmpSolutions :
          SolveStep("abs_amp_logcal", g, g, FALSE, [ant \in Ants |-> g[ant]])
    /\ log' = echo(log, SolverMsgs("abs_amp_logcal"), params.verbose)
    /\ pc' = "dly" /\ iter' = 1
    /\ UNCHANGED <<data0, params, butAbscal>>

\* lines 3033-3039: iter is the position in [True, False]
DelaySlopeStep ==
    /\ pc = "dly"
    /\ \E raw \in PhaseSolutions :
          LET time_avg == TimeAvgOrder[iter]
              g == IF time_avg THEN TimeAverage(raw) ELSE raw
          IN SolveStep("delay_slope_lincal", raw, g, time_avg, Accumulate(delta, g))
    /\ log' = echo(log, SolverMsgs("delay_slope_lincal"), params.verbose)
    /\ IF iter < Len(TimeAvgOrder)
       THEN pc' = "dly" /\ iter' = iter + 1
       ELSE pc' = "dft" /\ iter' = 0
    /\ UNCHANGED <<data0, params, butAbscal>>

\* lines 3042-3045
DftStep ==
    /\ pc = "dft"
    /\ \E g \in PhaseSolutions : SolveStep("dft", g, g, FALSE, Accumulate(delta, g))
    /\ log' = echo(log, SolverMsgs("dft"), params.verbose)
    /\ pc' = EnterLinfit(params.phs_max_iter) /\ iter' = 0
    /\ UNCHANGED <<data0, params, butAbscal>>

\* one pass of a loop body (lines 3047-3054, 3058-3064): iter is i
IterStep(stage, solver, after) ==
    /\ pc = stage
    /\ \E g \in PhaseSolutions :
          /\ SolveStep(solver, g, g, FALSE, Accumulate(delta, g))
          /\ log' = echo(echo(log, SolverMsgs(solver), params.verbose),
                         <<CritMsg(solver, g)>>, params.verbose)
          /\ IF ~Converged(g, params.conv4) /\ LoopContinues(iter + 1, params.phs_max_iter)
             THEN pc' = stage /\ iter' = iter + 1
             ELSE pc' = after /\ iter' = 0
    /\ UNCHANGED <<data0, params, butAbscal>>

LinfitStep == IterStep("linfit", "linfit", EnterTT(params.phs_max_iter))
TTStep == IterStep("tt", "TT_phs_logcal", "done")

\* a solver raises (an assertion, a linsolve error): the exception leaves
\* post_redcal_abscal, which returns nothing
SolverRaises ==
    /\ pc \in {"amp", "dly", "dft", "linfit", "tt"}
    /\ pc' = "raised"
    /\ UNCHANGED <<iter, data, data0, delta, gains_here, hist, log, params,
                   butAbscal>>

Next == AbsAmpStep \/ DelaySlopeStep \/ DftStep \/ LinfitStep \/ TTStep \/ SolverRaises

Init == InitAbscal
Spec == Init /\ [][Next]_vars
\* the function runs to its end: no step waits on anything
FairSpec == Spec /\ WF_vars(Next)

\* the value post_redcal_abscal returns (line 3066)
Returned == IF pc = "done" THEN [status |-> "ok", value |-> delta] ELSE Idle

Solves(solver) == {n \in DOMAIN hist : hist[n].solver = solver}

LastSolve(solver) == CHOOSE n \in Solves(solver) : \A m \in Solves(solver) : m <= n

\* an iterative stage ran all its phs_max_iter passes and the last one did
\* not meet phs_conv_crit
Exhausted(solver) ==
    /\ params.phs_max_iter > 0
    /\ Cardinality(Solves(solver)) = params.phs_max_iter
    /\ ~Converged(hist[LastSolve(solver)].gains, params.conv4)

\* C2: post_redcal_abscal always terminates: the linfit stage and the
\* tip-tilt stage each call their solver at most phs_max_iter times (never
\* when phs_max_iter = 0), converged or not, and unless a solver raises the
\* function reaches its return.
C2_Terminates ==
    /\ [](/\ Cardinality(Solves("linfit")) <= params.phs_max_iter
          /\ Cardinality(Solves("TT_phs_logcal")) <= params.phs_max_iter)
    /\ <>(pc \in {"done", "raised"})
    /\ [](pc = "done" => Returned = [status |-> "ok", value |-> delta])

\* both stages ran out of iterations without converging, and the function returned
C2_Witness ==
    /\ pc = "done" /\ params.phs_max_iter = MaxIter
    /\ Exhausted("linfit") /\ Exhausted("TT_phs_logcal")

\* the data a solve leaves behind: what it was given, calibrated by its gains
LeftBy(h) == calibrate_in_place(h.seen, h.gains, params.gain_convention)

\* C3: the solves run in the fixed order absolute amplitude (once), delay
\* slope (twice: one replaced by its median over time, one time-resolved),
\* phase slope by dft (once), phase slope by linfit, tip-tilt; every solver
\* is handed the data as calibrated by all the solves before it.
C3_FixedOrder ==
    /\ \A n \in DOMAIN hist :
          /\ n = 1 => hist[n].solver = "abs_amp_logcal"
          /\ n \in {2, 3} => hist[n].solver = "delay_slope_lincal"
          /\ n = 4 => hist[n].solver = "dft"
          /\ n > 4 => hist[n].solver \in {"linfit", "TT_phs_logcal"}
          /\ (n > 5 /\ hist[n - 1].solver = "TT_phs_logcal") => hist[n].solver = "TT_phs_logcal"
          /\ hist[n].seen = IF n = 1 THEN data0 ELSE LeftBy(hist[n - 1])
          /\ IF hist[n].time_avg
             THEN \A ant \in Ants : \A t \in DOMAIN hist[n].gains[ant] :
                     /\ hist[n].gains[ant][t] = hist[n].gains[ant][1]
                     /\ hist[n].gains[ant][t] = MedianOverTime(hist[n].raw[ant])
             ELSE hist[n].gains = hist[n].raw
    /\ Cardinality({n \in DOMAIN hist : hist[n].time_avg}) <= 1
    /\ pc \in {"dft", "linfit", "tt", "done"} =>
          /\ Len(hist) >= 3
          /\ Cardinality({n \in Solves("delay_slope_lincal") : hist[n].time_avg}) = 1
          /\ Cardinality({n \in Solves("delay_slope_lincal") : ~hist[n].time_avg}) = 1
    /\ pc \in {"linfit", "tt", "done"} => Len(hist) >= 4
    /\ data = IF hist = <<>> THEN data0 ELSE LeftBy(hist[Len(hist)])

\* a complete run with linfit and tip-tilt solves whose time-averaged delay
\* solve differs from what the solver returned
C3_Witness ==
    /\ pc = "done"
    /\ Solves("linfit") # {} /\ Solves("TT_phs_logcal") # {}
    /\ \E n \in DOMAIN hist : hist[n].time_avg /\ hist[n].gains # hist[n].raw

\* the product over the solves 1..n of the gain of antenna ant at time t
RECURSIVE GainProduct(_, _, _)
GainProduct(ant, t, n) ==
    IF n = 0 THEN COne ELSE CMul(GainProduct(ant, t, n - 1), hist[n].gains[ant][t])

\* C4: after every solve, abscal_delta_gains[ant] is the product of the
\* gains of all solves so far, and the working data are the input data
\* calibrated once by abscal_delta_gains: divided by G_i * conj(G_j) under
\* 'divide', multiplied by it under 'multiply'.
C4_DeltaIsProduct ==
    hist # <<>> =>
        /\ \A ant \in Ants : \A t \in DOMAIN delta[ant] :
              delta[ant][t] = GainProduct(ant, t, Len(hist))
        /\ \A bl \in Bls : \A t \in DOMAIN data[bl] :
              LET G == CMul(delta[SplitBl(bl)[1]][t], CConj(delta[SplitBl(bl)[2]][t]))
              IN data[bl][t] = IF params.gain_convention = "divide"
                               THEN CDiv(data0[bl][t], G) ELSE CMul(data0[bl][t], G)

\* a returned composite gain that differs from the gains of the last solve
\* and has changed the data
C4_Witness ==
    /\ pc = "done" /\ Len(hist) >= 6
    /\ delta # gains_here /\ delta # UnitGains
    /\ data # data0
    /\ params.gain_convention = "divide"

\* C24: in each iterative stage the correction of an iteration is applied
\* to the working data and multiplied into abscal_delta_gains before that
\* iteration's convergence statistic is tested, so also when it ends the
\* stage, and the stage makes no further solve after the first iteration
\* whose statistic is below phs_conv_crit.
C24_ApplyThenTest ==
    \A solver \in {"linfit", "TT_phs_logcal"} : \A n \in Solves(solver) :
        /\ Crit4(hist[n].gains) < params.conv4 => \A m \in Solves(solver) : m <= n
        /\ n = Len(hist) =>
              /\ data = calibrate_in_place(hist[n].seen, hist[n].gains, params.gain_convention)
              /\ \A ant \in Ants : \A t \in DOMAIN delta[ant] :
                     delta[ant][t] = CMul(GainProduct(ant, t, n - 1), hist[n].gains[ant][t])

\* the linfit stage stopped at its first iteration, of two allowed, on gains
\* that are not unity and that are in the data and in the returned product
C24_Witness ==
    /\ pc = "done" /\ params.phs_max_iter = MaxIter
    /\ Cardinality(Solves("linfit")) = 1
    /\ \E n \in Solves("linfit") :
          /\ hist[n].gains # UnitGains
          /\ Crit4(hist[n].gains) < params.conv4
          /\ calibrate_in_place(hist[n].seen, hist[n].gains, params.gain_convention) # hist[n].seen

\* what the caller gets back besides the gains: line 3066 returns
\* abscal_delta_gains alone
ReturnedDiagnostics == {}

\* C5: when an iterative stage stops at phs_max_iter without converging, no
\* exception is raised, the corrections so far are returned, and the caller
\* can see the non-convergence in a diagnostic that is returned or logged.
C5_NonConvergenceObservable ==
    \A solver \in {"linfit", "TT_phs_logcal"} :
        (pc = "done" /\ Exhausted(solver)) =>
            /\ Returned.status = "ok"
            /\ \/ ReturnedDiagnostics # {}
               \/ \E n \in DOMAIN log :
                     log[n] = CritMsg(solver, hist[LastSolve(solver)].gains)

(***************************************************************************)
(* The logcal solvers and fill_dict_nans.  A float is [k, v]: k = "fin"    *)
(* with value v, k = "nan", or k = "inf" with sign v.  A visibility sample *)
(* is [k, a, p]: the number sqrt(2)^a * i^p (k = "num"), 0 (k = "zero"),   *)
(* NaN (k = "nan") or the inf+nanj of a division by zero (k = "inf").      *)
(* Log-amplitudes are in units of ln(2)/2, angles in units of pi/2.        *)
(***************************************************************************)
F(k, v) == [k |-> k, v |-> v]
Fin(v) == F("fin", v)
NaN == F("nan", 0)
PyNone == F("none", 0)
IsNan(x) == x.k = "nan"
IsInf(x) == x.k = "inf"
IsFinite(x) == x.k = "fin"

Z(a, p) == [k |-> "num", a |-> a, p |-> p]
ZZero == [k |-> "zero", a |-> 0, p |-> 0]
ZNan == [k |-> "nan", a |-> 0, p |-> 0]
ZInf == [k |-> "inf", a |-> 0, p |-> 0]

\* data[k] / model[k] of numpy complex arrays, sample by sample
ZDiv(d, m) ==
    CASE d.k = "nan" \/ m.k = "nan" -> ZNan
      [] m.k = "zero" /\ d.k = "zero" -> ZNan
      [] m.k = "zero" -> ZInf
      [] d.k = "zero" -> ZZero
      [] OTHER -> Z(d.a - m.a, (d.p + 4 - m.p) % 4)

\* np.log(np.abs(z))
LogAbs(z) ==
    CASE z.k = "num" -> Fin(z.a)
      [] z.k = "zero" -> F("inf", -1)
      [] z.k = "inf" -> F("inf", 1)
      [] OTHER -> NaN

\* np.angle(z), in (-pi, pi]
Angle(z) ==
    CASE z.k = "num" -> Fin(IF z.p = 3 THEN -1 ELSE z.p)
      [] z.k = "zero" -> Fin(0)
      [] OTHER -> NaN

NSamp == 2
Samples == 1..NSamp

\* the wgts argument: a dictionary, or None
Wgts(d) == [given |-> TRUE, d |-> d]
NoWgts == [given |-> FALSE, d |-> <<>>]

\* fill_dict_nans on the arrays of one key (abscal.py 1390-1402; the
\* array=True branch, 1377-1386, does the same to a single array): the NaN
\* pass, then the Inf pass on its result.  hasw: wgts is not None.
FillNanPass(d, w, hasw, nan_fill) ==
    IF nan_fill = PyNone THEN [d |-> d, w |-> w]
    ELSE [d |-> [s \in DOMAIN d |-> IF IsNan(d[s]) THEN nan_fill ELSE d[s]],
          w |-> IF hasw THEN [s \in DOMAIN w |-> IF IsNan(d[s]) THEN Fin(0) ELSE w[s]]
                ELSE w]
FillInfPass(d, w, hasw, inf_fill) ==
    IF inf_fill = PyNone THEN [d |-> d, w |-> w]
    ELSE [d |-> [s \in DOMAIN d |-> IF IsInf(d[s]) THEN inf_fill ELSE d[s]],
          w |-> IF hasw THEN [s \in DOMAIN w |-> IF IsInf(d[s]) THEN Fin(0) ELSE w[s]]
                ELSE w]

FillArrayNanOnly(d, w, hasw, nan_fill, inf_fill) == FillNanPass(d, w, hasw, nan_fill)

FillArray(d, w, hasw, nan_fill, inf_fill) ==
    LET n == FillNanPass(d, w, hasw, nan_fill)
    IN FillInfPass(n.d, n.w, hasw, inf_fill)

\* fill_dict_nans(data, wgts, nan_fill, inf_fill): both dictionaries are
\* changed in place, key by key of data
fill_dict_nans(dd, wgts, nan_fill, inf_fill) ==
    [data |-> [k \in DOMAIN dd |->
                  FillArray(dd[k], IF wgts.given THEN wgts.d[k] ELSE <<>>, wgts.given,
                            nan_fill, inf_fill).d],
     wgts |-> IF wgts.given
              THEN Wgts([k \in DOMAIN wgts.d |->
                       IF k \in DOMAIN dd
                       THEN FillArray(dd[k], wgts.d[k], TRUE, nan_fill, inf_fill).w
                       ELSE wgts.d[k]])
              ELSE wgts]

\* sorted(set(model.keys()) & set(data.keys()))
SharedKeys(model, dd) == DOMAIN model \cap DOMAIN dd

\* lines 102-106 (and 207-212, 309-312, 378-381): np.ones_like when wgts is None
DefaultWgts(wgts, ydata) ==
    IF wgts.given THEN wgts
    ELSE Wgts([k \in DOMAIN ydata |-> [s \in DOMAIN ydata[k] |-> Fin(1)]])

\* the observed quantity of each solver (lines 100, 205, 306, 375)
Observed(solver, z) ==
    IF solver \in {"abs_amp_logcal", "amp_logcal"} THEN LogAbs(z) ELSE Angle(z)

Ydata(solver, model, dd) ==
    [k \in SharedKeys(model, dd) |->
        [s \in DOMAIN dd[k] |-> Observed(solver, ZDiv(dd[k][s], model[k][s]))]]

\* lines 109, 215, 315, 384
Scrub(ydata, wgts) == fill_dict_nans(ydata, wgts, Fin(0), Fin(0))

\* the number of unknowns a key's equation adds up (lines 113-115):
\* a*eta_x + a*eta_y with a = 1, and 'ee' splits into ('Jee', 'Jee')
AbsAmpCoeffOne(k) == 1
AbsAmpCoeff(k) == 2

\* linsolve.LinearSolver(ls_data, wgts=ls_wgts).solve() for the one unknown
\* eta_Jee, at sample s: the weighted least-squares solution
\* sum(w*c*y) / sum(w*c*c) as a fraction, 0 when every weight is 0 (the
\* minimum-norm solution); not a number when a weight is not finite
RECURSIVE SumOver(_, _)
SumOver(S, f) ==
    IF S = {} THEN 0 ELSE LET k == CHOOSE x \in S : TRUE IN f[k] + SumOver(S \ {k}, f)
LinSolveEta(ls_data, ls_wgts, s) ==
    LET keys == DOMAIN ls_data
    IN IF \E k \in keys : ~IsFinite(ls_wgts[k][s]) \/ ~IsFinite(ls_data[k][s])
       THEN [k |-> "nan", num |-> 0, den |-> 1]
       ELSE LET num == SumOver(keys, [k \in keys |->
                           ls_wgts[k][s].v * AbsAmpCoeff(k) * ls_data[k][s].v])
                den == SumOver(keys, [k \in keys |->
                           ls_wgts[k][s].v * AbsAmpCoeff(k) * AbsAmpCoeff(k)])
            IN IF den = 0 THEN [k |-> "fin", num |-> 0, den |-> 1]
               ELSE [k |-> "fin", num |-> num, den |-> den]

\* the common part of abs_amp_logcal (96-119), TT_phs_logcal (200-253),
\* amp_logcal (303-324) and phs_logcal (372-404): what reaches linsolve, and
\* the caller's weights afterwards (the caller's dictionary is the one
\* fill_dict_nans changes)
LogcalSystem(solver, model, dd, wgts) ==
    LET keys == SharedKeys(model, dd)
        yraw == Ydata(solver, model, dd)
        f == Scrub(yraw, DefaultWgts(wgts, yraw))
    IN [status |-> "ok", solver |-> solver,
        ydata_raw |-> yraw, ydata |-> f.data,
        ls_data |-> [k \in keys |-> f.data[k]],
        ls_wgts |-> [k \in keys |-> f.wgts.d[k]],
        \* phs_logcal adds phi_refant = 0 with np.ones_like weights (401-405)
        ls_refant |-> IF solver = "phs_logcal"
                      THEN <<[s \in Samples |-> Fin(1)]>> ELSE <<>>,
        caller_wgts |-> IF wgts.given THEN f.wgts ELSE wgts,
        \* data[k] / model[k] and np.log, np.angle make new arrays
        caller_model |-> model, caller_data |-> dd]

\* fit['eta_Jee'] of abs_amp_logcal per sample (lines 121-124); with
\* return_gains=True every antenna of gain_ants gets exp(eta_Jee) (line
\* 130): the number sqrt(2)^(num/den)
AbsAmpFit(sys) == [s \in Samples |-> LinSolveEta(sys.ls_data, sys.ls_wgts, s)]
AbsAmpGains(fit) == [ant \in Ants |-> fit]

K1 == <<0, 1, "ee">>
KData == <<0, 2, "ee">>       \* a baseline only the data have
KModel == <<1, 2, "ee">>      \* a baseline only the model has

DataSamples == {Z(2, 0), ZZero, ZNan}
ModelSamples == {Z(0, 0), ZZero}
WgtSamples == {Fin(1), Fin(0), NaN, F("inf", 1)}
CleanVis == [s \in Samples |-> Z(0, 0)]
CleanWgt == [s \in Samples |-> Fin(1)]

FloatSamples == {Fin(3), NaN, F("inf", 1), F("inf", -1)}
FillWgtSamples == {Fin(2), Fin(0)}
Fills == {Fin(0), PyNone}

\* the arguments of one solver call, with or without unshared baselines
SolverArgsWith(extra) ==
    {[fn |-> "solver",
      model |-> IF extra THEN (K1 :> m) @@ (KModel :> CleanVis) ELSE (K1 :> m),
      data |-> IF extra THEN (K1 :> d) @@ (KData :> CleanVis) ELSE (K1 :> d),
      wgts |-> w] :
        m \in [Samples -> ModelSamples],
        d \in [Samples -> DataSamples],
        w \in {NoWgts} \cup
              {Wgts(IF extra THEN (K1 :> a) @@ (KData :> CleanWgt) ELSE (K1 :> a)) :
                   a \in [Samples -> WgtSamples]}}
SolverArgs == SolverArgsWith(TRUE) \cup SolverArgsWith(FALSE)

\* the arguments of one direct call of fill_dict_nans on two keys
FillArgs ==
    {[fn |-> "fill_dict_nans",
      data |-> (K1 :> d1) @@ (KData :> d2),
      wgts |-> IF hasw THEN Wgts((K1 :> w1) @@ (KData :> CleanWgt)) ELSE NoWgts,
      nan_fill |-> nf, inf_fill |-> jf] :
        d1 \in [Samples -> FloatSamples], d2 \in [Samples -> {Fin(3), NaN}],
        w1 \in [Samples -> FillWgtSamples], hasw \in BOOLEAN,
        nf \in Fills, jf \in Fills}

InitLogcal ==
    /\ lc_in \in SolverArgs \cup FillArgs
    /\ lc_out = Idle
    /\ IdleButLogcal

CallSolver(solver) ==
    /\ lc_in # Idle /\ lc_in.fn = "solver" /\ lc_out.status = "idle"
    /\ lc_out' = LogcalSystem(solver, lc_in.model, lc_in.data, lc_in.wgts)
    /\ UNCHANGED <<lc_in, butLogcal>>

CallAbsAmpLogcal ==
    /\ lc_in # Idle /\ lc_in.fn = "solver" /\ lc_out.status = "idle"
    /\ LET sys == LogcalSystem("abs_amp_logcal", lc_in.model, lc_in.data, lc_in.wgts)
           fit == AbsAmpFit(sys)
       IN lc_out' = [sys EXCEPT !.status = "solved"] @@
                    [fit |-> fit, gains |-> AbsAmpGains(fit)]
    /\ UNCHANGED <<lc_in, butLogcal>>
CallAmpLogcal == CallSolver("amp_logcal")
CallPhsLogcal == CallSolver("phs_logcal")
CallTTPhsLogcal == CallSolver("TT_phs_logcal")

CallFillDictNans ==
    /\ lc_in # Idle /\ lc_in.fn = "fill_dict_nans" /\ lc_out.status = "idle"
    /\ LET f == fill_dict_nans(lc_in.data, lc_in.wgts, lc_in.nan_fill, lc_in.inf_fill)
       IN lc_out' = [status |-> "filled", data |-> f.data, wgts |-> f.wgts]
    /\ UNCHANGED <<lc_in, butLogcal>>

NextLogcal ==
    \/ CallAbsAmpLogcal \/ CallAmpLogcal \/ CallPhsLogcal \/ CallTTPhsLogcal
    \/ CallFillDictNans

SpecLogcal == InitLogcal /\ [][NextLogcal]_vars

\* the scenario of C6: antennas {0, 1}, the one baseline (0, 1, 'ee'),
\* data = 2.0 * model, unit weights, solved by abs_amp_logcal
C6_Scenario ==
    /\ lc_out.status = "solved"
    /\ DOMAIN lc_in.model = {K1} /\ DOMAIN lc_in.data = {K1}
    /\ \A s \in Samples : lc_in.model[K1][s] = Z(0, 0) /\ lc_in.data[K1][s] = Z(2, 0)
    /\ lc_in.wgts = Wgts(K1 :> CleanWgt)

\* x = r * ln(2)/2 for a fit x, and x = sqrt(2)^r for a gain x
IsUnits(x, r) == x.k = "fin" /\ x.num = r * x.den

\* C6 (amended): in the scenario abs_amp_logcal recovers, at every sample,
\* eta_Jee = ln(2)/2, and with return_gains=True the gain sqrt(2) for both
\* antennas, so that g_0 * conj(g_1) = 2.0
C6_HalfLog2 ==
    C6_Scenario =>
        \A s \in Samples :
            /\ IsUnits(lc_out.fit[s], 1)
            /\ \A ant \in Ants : IsUnits(lc_out.gains[ant][s], 1)

C6_Witness == C6_Scenario

\* C6 as claimed: eta = ln(2.0) at every sample and the gain 2.0+0j for
\* both antennas
C6_AsClaimed ==
    C6_Scenario =>
        \A s \in Samples :
            /\ IsUnits(lc_out.fit[s], 2)
            /\ \A ant \in Ants : IsUnits(lc_out.gains[ant][s], 2)

\* C7: after fill_dict_nans(data, wgts, nan_fill=0.0, inf_fill=0.0) no
\* array of data holds NaN or Inf; where one was, the data are 0 and the
\* weight is 0; every other data and weight entry is unchanged.
C7_FillZeroes ==
    (/\ lc_out.status = "filled" /\ lc_in.wgts.given
     /\ lc_in.nan_fill = Fin(0) /\ lc_in.inf_fill = Fin(0)) =>
        \A k \in DOMAIN lc_in.data : \A s \in Samples :
            /\ IsFinite(lc_out.data[k][s])
            /\ IF IsNan(lc_in.data[k][s]) \/ IsInf(lc_in.data[k][s])
               THEN lc_out.data[k][s] = Fin(0) /\ lc_out.wgts.d[k][s] = Fin(0)
               ELSE /\ lc_out.data[k][s] = lc_in.data[k][s]
                    /\ lc_out.wgts.d[k][s] = lc_in.wgts.d[k][s]

\* a call that found a NaN, an Inf and a finite sample
C7_Witness ==
    /\ lc_out.status = "filled" /\ lc_in.wgts.given
    /\ lc_in.nan_fill = Fin(0) /\ lc_in.inf_fill = Fin(0)
    /\ \E k \in DOMAIN lc_in.data : \E s \in Samples :
          IsInf(lc_in.data[k][s]) /\ lc_in.wgts.d[k][s] # Fin(0)
    /\ \E k \in DOMAIN lc_in.data : \E s \in Samples : IsNan(lc_in.data[k][s])
    /\ \E k \in DOMAIN lc_in.data : \E s \in Samples : IsFinite(lc_in.data[k][s])

\* C8: whatever weights the caller supplies, the weights abs_amp_logcal,
\* amp_logcal, phs_logcal and TT_phs_logcal hand to the linear solver hold
\* no NaN and no Inf.
C8_SolverWgtsFinite ==
    lc_out.status \in {"ok", "solved"} =>
        \A k \in DOMAIN lc_out.ls_wgts : \A s \in Samples : IsFinite(lc_out.ls_wgts[k][s])

(***************************************************************************)
(* edge_cut in fft_dly (utils.py 107-158) and global_phase_slope_logcal    *)
(* (abscal.py 814-817, 866-869): which channels 0..Nfreqs-1 each window    *)
(* holds, and which edge_cut the assertions let through.                   *)
(***************************************************************************)
MaxNfreqs == 10
MaxEdgeCut == 6

\* the indices a Python slice start:stop selects from an axis of length n
PyIndex(i, n) == IF i < 0 THEN (IF i + n < 0 THEN 0 ELSE i + n) ELSE (IF i > n THEN n ELSE i)
PySlice(n, start, stop) == {c \in 0..(n - 1) : PyIndex(start, n) <= c /\ c < PyIndex(stop, n)}

\* lines 135 and 817: assert 2 * edge_cut < Nfreqs - 1
EdgeCutAssert(edge_cut, Nfreqs) == 2 * edge_cut < Nfreqs - 1

\* fft_dly: the assertion (134-135), the channels of dw that are Fourier
\* transformed (136-140) and the channels of the offset estimate (148-156)
fft_dly(Nfreqs, edge_cut) ==
    IF edge_cut > 0 /\ ~EdgeCutAssert(edge_cut, Nfreqs)
    THEN [status |-> "AssertionError", fn |-> "fft_dly", window |-> {}, offset_window |-> {}]
    ELSE LET fft_window == IF edge_cut > 0
                           THEN PySlice(Nfreqs, edge_cut, 1 - edge_cut)  \* dw[:, edge_cut:(-edge_cut + 1)]
                           ELSE 0..(Nfreqs - 1)
             fSlice == PySlice(Nfreqs, edge_cut, Nfreqs - edge_cut)
         IN IF Cardinality(fft_window) < 2
            THEN \* fewer than two bins: np.fft.fftfreq(0, df) divides by zero for
                 \* a Python float df, and fftfreqs[1] (line 139) does not exist
                 [status |-> "IndexError", fn |-> "fft_dly", window |-> fft_window,
                  offset_window |-> {}]
            ELSE [status |-> "ok", fn |-> "fft_dly", window |-> fft_window,
                  offset_window |-> fSlice]

\* global_phase_slope_logcal: the assertion (817) and the channels of the
\* median and of the weight sum (866-869); both windows are the same slice
global_phase_slope_edge(Nfreqs, edge_cut) ==
    IF ~EdgeCutAssert(edge_cut, Nfreqs)
    THEN [status |-> "AssertionError", fn |-> "global_phase_slope_logcal",
          window |-> {}, offset_window |-> {}]
    ELSE [status |-> "ok", fn |-> "global_phase_slope_logcal",
          window |-> PySlice(Nfreqs, edge_cut, Nfreqs - edge_cut),
          offset_window |-> PySlice(Nfreqs, edge_cut, Nfreqs - edge_cut)]

InitEdge ==
    /\ ff_in \in [Nfreqs : 1..MaxNfreqs, edge_cut : 0..MaxEdgeCut]
    /\ ff_out = Idle
    /\ IdleButEdge

CallFftDly ==
    /\ ff_out.status = "idle"
    /\ ff_out' = fft_dly(ff_in.Nfreqs, ff_in.edge_cut)
    /\ UNCHANGED <<ff_in, butEdge>>

CallGlobalPhaseSlope ==
    /\ ff_out.status = "idle"
    /\ ff_out' = global_phase_slope_edge(ff_in.Nfreqs, ff_in.edge_cut)
    /\ UNCHANGED <<ff_in, butEdge>>

NextEdge == CallFftDly \/ CallGlobalPhaseSlope

SpecEdge == InitEdge /\ [][NextEdge]_vars

\* C9: for every edge_cut = c > 0 that fft_dly accepts, the Fourier
\* transform is taken over exactly the channels c .. Nfreqs-c-1, the window
\* of the phase-offset estimate.
C9_FftWindow ==
    (/\ ff_out.status # "idle" /\ ff_out.fn = "fft_dly"
     /\ ff_in.edge_cut > 0 /\ ff_out.status # "AssertionError") =>
        /\ ff_out.status = "ok"
        /\ ff_out.window = ff_in.edge_cut..(ff_in.Nfreqs - ff_in.edge_cut - 1)
        /\ ff_out.window = ff_out.offset_window

\* C10: global_phase_slope_logcal (every call) and fft_dly (edge_cut > 0)
\* reject every edge_cut >= Nfreqs/2 - 1 with an assertion error and accept
\* every smaller edge_cut >= 0.
C10_EdgeCutRejected ==
    (/\ ff_out.status # "idle"
     /\ ff_out.fn = "fft_dly" => ff_in.edge_cut > 0) =>
        ((ff_out.status = "AssertionError") <=> (2 * ff_in.edge_cut >= ff_in.Nfreqs - 2))

(***************************************************************************)
(* cut_bls (abscal.py 1727-1774).  A container is the sequence of its      *)
(* keys, in the order its dictionary iterates them; a baseline vector is   *)
(* one signed coordinate and its norm the absolute value.  Lengths are in  *)
(* units of 10 m, so that the default upper cut 1e10 m is 10^9.            *)
(***************************************************************************)
MaxBlLen == 3
DefaultMinBlCut == 0
DefaultMaxBlCut == 1000000000

CutKeys == {<<0, 1, "ee">>, <<0, 2, "ee">>, <<1, 2, "ee">>}
CutAnts == {0, 1, 2}
VecSamples == {0 - MaxBlLen, 1, 2, 2 * DefaultMaxBlCut}
CutSamples == {PyNone, Fin(2)}

\* the sequences of distinct elements of S: the possible key orders
RECURSIVE Orders(_)
Orders(S) == IF S = {} THEN {<<>>}
             ELSE UNION {{<<x>> \o o : o \in Orders(S \ {x})} : x \in S}

Norm(v) == IF v < 0 THEN 0 - v ELSE v            \* np.linalg.norm
SeqWithout(q, x) == SelectSeq(q, LAMBDA y : y # x)   \* del datacontainer[k]

\* lines 1751-1754: a missing bound
OrDefault(x, d) == IF x = PyNone THEN d ELSE x.v

\* lines 1759-1764: bls built from the container's antpos attribute
BlsFromAntpos(dc, ap) ==
    [bl \in {k \in Range(dc) : k[1] \in DOMAIN ap /\ k[2] \in DOMAIN ap} |-> ap[bl[2]] - ap[bl[1]]]

\* line 1769
OutsideCut(bl_len, min_bl_cut, max_bl_cut) == bl_len > max_bl_cut \/ bl_len < min_bl_cut

\* lines 1765-1770: the loop over list(datacontainer.keys()), from the n-th
\* key on.  bls[k] is read (1766) before k is looked up in bls (1767), so a
\* key without a baseline vector ends the loop with a KeyError.
RECURSIVE CutLoop(_, _, _, _, _, _)
CutLoop(todo, n, dc, bls, min_bl_cut, max_bl_cut) ==
    IF n > Len(todo) THEN [status |-> "ok", dc |-> dc]
    ELSE LET k == todo[n]
         IN IF k \notin DOMAIN bls THEN [status |-> "KeyError", dc |-> dc]
            ELSE IF OutsideCut(Norm(bls[k]), min_bl_cut, max_bl_cut)
                 THEN CutLoop(todo, n + 1, SeqWithout(dc, k), bls, min_bl_cut, max_bl_cut)
                 ELSE CutLoop(todo, n + 1, dc, bls, min_bl_cut, max_bl_cut)

\* cut_bls: value is the container returned, caller the container the caller
\* passed in as the call leaves it (the same object when inplace)
cut_bls(datacontainer, antpos, bls, min_bl_cut, max_bl_cut, inplace) ==
    LET lo == OrDefault(min_bl_cut, DefaultMinBlCut)
        hi == OrDefault(max_bl_cut, DefaultMaxBlCut)
        Left(status, dc) == [status |-> status, value |-> IF status = "ok" THEN dc ELSE <<>>,
                             caller |-> IF inplace THEN dc ELSE datacontainer]
    IN IF ~bls.given /\ ~antpos.given
       THEN Left("ValueError", datacontainer)
       ELSE LET vecs == IF bls.given THEN bls.d ELSE BlsFromAntpos(datacontainer, antpos.d)
                cut == CutLoop(datacontainer, 1, datacontainer, vecs, lo, hi)
            IN IF cut.status # "ok" THEN Left(cut.status, cut.dc)
               ELSE IF ~(Len(cut.dc) > 0) THEN Left("AssertionError", cut.dc)
               ELSE Left("ok", cut.dc)

Given(d) == [given |-> TRUE, d |-> d]
NotGiven == [given |-> FALSE, d |-> <<>>]
AntposSamples == {[a \in as |-> <<0, 1, 3>>[a + 1]] : as \in SUBSET CutAnts}
BlsSamples == UNION {[ks -> VecSamples] : ks \in SUBSET CutKeys}

CutArgs(blss, antposs) ==
    [dc : UNION {Orders(ks) : ks \in SUBSET CutKeys}, bls : blss, antpos : antposs,
     min_bl_cut : CutSamples, max_bl_cut : CutSamples, inplace : BOOLEAN]

InitCut ==
    /\ cb_in \in CutArgs({Given(b) : b \in BlsSamples}, {NotGiven})
                 \cup CutArgs({NotGiven}, {NotGiven} \cup {Given(ap) : ap \in AntposSamples})
    /\ cb_out = Idle
    /\ IdleButCut

CallCutBls ==
    /\ cb_out.status = "idle"
    /\ cb_out' = cut_bls(cb_in.dc, cb_in.antpos, cb_in.bls, cb_in.min_bl_cut,
                         cb_in.max_bl_cut, cb_in.inplace)
    /\ UNCHANGED <<cb_in, butCut>>

NextCut == CallCutBls

SpecCut == InitCut /\ [][NextCut]_vars

\* the baseline vectors the call works with, where it gets that far
CutVecs == IF cb_in.bls.given THEN cb_in.bls.d ELSE BlsFromAntpos(cb_in.dc, cb_in.antpos.d)
\* a key has a baseline length inside [min_bl_cut, max_bl_cut]
InsideCut(k) ==
    /\ k \in DOMAIN CutVecs
    /\ Norm(CutVecs[k]) >= OrDefault(cb_in.min_bl_cut, DefaultMinBlCut)
    /\ Norm(CutVecs[k]) <= OrDefault(cb_in.max_bl_cut, DefaultMaxBlCut)

\* C12: every call of cut_bls that is given baseline vectors (or an antpos
\* to build them from) either returns the container with exactly the keys
\* whose baseline length is outside [min_bl_cut, max_bl_cut] removed (0 and
\* 1e10 standing in for a missing bound), or raises an assertion error, and
\* it raises the assertion error exactly when no key remains.
C12_CutExact ==
    (cb_out.status \notin {"idle", "ValueError"}) =>
        LET kept == SelectSeq(cb_in.dc, LAMBDA k : ~(k \in DOMAIN CutVecs /\ ~InsideCut(k)))
        IN /\ cb_out.status \in {"ok", "AssertionError"}
           /\ (cb_out.status = "AssertionError") <=> (kept = <<>>)
           /\ cb_out.status = "ok" => cb_out.value = kept

\* the keys of the container that have no entry in bls
KeysWithoutVector == {k \in Range(cb_in.dc) : k \notin DOMAIN CutVecs}

\* C30: cut_bls leaves in the container, without raising, every key that
\* has no entry in bls; only keys that have a baseline vector are tested
\* against the length cut.
C30_KeysWithoutVectorKept ==
    (cb_out.status \notin {"idle", "ValueError"} /\ KeysWithoutVector # {}) =>
        /\ cb_out.status # "KeyError"
        /\ KeysWithoutVector \subseteq Range(cb_out.caller)
        /\ cb_out.status = "ok" => KeysWithoutVector \subseteq Range(cb_out.value)

(***************************************************************************)
(* The AbsCal object (abscal.py 1821-2762): its constructor on dictionary  *)
(* inputs, its solver methods and its result properties.  A fit is the     *)
(* dictionary linsolve returns, keyed by the parameter names of the        *)
(* equations; a parameter name "T_ew_Jee" is the tuple <<"T_ew", "Jee">>.  *)
(***************************************************************************)
MaxCalls == 2

AcKeys == {<<0, 1, "ee">>, <<1, 2, "ee">>, <<0, 1, "nn">>, <<0, 2, "en">>}
AcKeySets == {ks \in SUBSET AcKeys : Cardinality(ks) <= 2}
AcModelSets == {ks \in AcKeySets : Cardinality(ks) = 2 /\ <<0, 1, "nn">> \notin ks}
AcDataSets == {ks \in AcKeySets : Cardinality(ks) = 2 /\ <<0, 1, "ee">> \in ks}
AcAntpos == [a \in {0, 1, 2, 3} |-> <<5, 6, 8, 9>>[a + 1]]
RefantSamples == {PyNone, Fin(1)}

\* utils.split_pol on the polarizations of AcKeys
split_pol(pol) ==
    CASE pol = "ee" -> <<"Jee", "Jee">>
      [] pol = "nn" -> <<"Jnn", "Jnn">>
      [] pol = "en" -> <<"Jee", "Jnn">>
      [] pol = "ne" -> <<"Jnn", "Jee">>

\* np.unique returns its values sorted
GainPolOrder == <<"Jee", "Jnn">>
UniqueGainPols(pols) ==
    SelectSeq(GainPolOrder, LAMBDA gp : \E p \in pols : gp \in Range(split_pol(p)))

\* the order sorted() puts two keys in
PolRank(pol) == CASE pol = "ee" -> 0 [] pol = "en" -> 1 [] pol = "ne" -> 2 [] pol = "nn" -> 3
KeyLess(k1, k2) ==
    \/ k1[1] < k2[1]
    \/ k1[1] = k2[1] /\ k1[2] < k2[2]
    \/ k1[1] = k2[1] /\ k1[2] = k2[2] /\ PolRank(k1[3]) < PolRank(k2[3])
Sorted(keys) ==
    CHOOSE o \in Orders(keys) : \A m, n \in DOMAIN o : m < n => KeyLess(o[m], o[n])

NoAttrs == [name \in {} |-> <<>>]

\* line 1958
RefantAssertNone(refant, ants) == TRUE
RefantAssert(refant, ants) == refant \in ants

\* lines 1918-1965 and _set_antpos (1990-2001): one pass of __init__ without
\* the baseline cut; refant is PyNone or Fin(a), antpos Given(d) or NotGiven
AbsCalBase(model, dd, refant, antpos, freqs) ==
    LET keys == model \cap dd
        ants == UNION {{k[1], k[2]} : k \in keys}
    IN IF ~(Cardinality(keys) > 0)
       THEN [status |-> "AssertionError", at |-> 1920]
       ELSE IF refant # PyNone /\ ~RefantAssert(refant.v, ants)
       THEN [status |-> "AssertionError", at |-> 1958]
       ELSE LET ref == IF refant = PyNone THEN Sorted(keys)[1][1] ELSE refant.v
                pols == {k[3] : k \in keys}
            IN [status |-> "ok", keys |-> keys, pols |-> pols,
                gain_pols |-> UniqueGainPols(pols), ants |-> ants, refant |-> ref,
                antpos |-> IF antpos.given
                           THEN Given([a \in ants |-> antpos.d[a] - antpos.d[ref]])
                           ELSE NotGiven,
                freqs |-> freqs, attrs |-> NoAttrs, ncalls |-> 0, last |-> Idle]

\* AbsCal.__init__ (1918-1976): the first pass, then the baseline cut of
\* model and data and the second pass on what the cut leaves
AbsCalInit(model, dd, refant, antpos, freqs, min_bl_cut, max_bl_cut) ==
    LET obj == AbsCalBase(model, dd, refant, antpos, freqs)
    IN IF obj.status # "ok" \/ (min_bl_cut = PyNone /\ max_bl_cut = PyNone) THEN obj
       ELSE IF ~obj.antpos.given THEN [status |-> "AssertionError", at |-> 1969]
       ELSE LET bls == Given([k \in obj.keys |-> obj.antpos.d[k[1]] - obj.antpos.d[k[2]]])
                cut == cut_bls(Sorted(obj.keys), NotGiven, bls, min_bl_cut, max_bl_cut, FALSE)
            IN IF cut.status # "ok" THEN [status |-> cut.status, at |-> 1772]
               ELSE AbsCalBase(Range(cut.value), Range(cut.value), Fin(obj.refant),
                               obj.antpos, freqs)

\* a linsolve solution for one parameter, and its median over time
Sol(name) == [param |-> name, time_avg |-> FALSE]
TimeAvgSol(v) == [v EXCEPT !.time_avg = TRUE]

DictSet(d, k, v) == [x \in DOMAIN d \cup {k} |-> IF x = k THEN v ELSE d[x]]
DictPop(d, k) == [x \in DOMAIN d \ {k} |-> d[x]]
FitOf(names) == [n \in names |-> Sol(n)]
GainKeysOf(obj) == {<<a, gp>> : a \in obj.ants, gp \in Range(obj.gain_pols)}   \* flatten(self._gain_keys)

\* the parameters of the equations (abscal.py 228-240, 682-689)
SlopeParams(keys, four_pol, ew, ns) ==
    IF four_pol THEN {<<ew>>, <<ns>>}
    ELSE UNION {{<<ew, gp>>, <<ns, gp>>} : gp \in UNION {Range(split_pol(k[3])) : k \in keys}}
PsiParams(keys) == {<<"psi", gp>> : gp \in UNION {Range(split_pol(k[3])) : k \in keys}}

\* lines 2184-2189 and 2313-2318: for gp in gain_pols, copy the shared
\* solution under the name of gp, then pop the shared names
RECURSIVE FourPolLoop(_, _, _, _, _)
FourPolLoop(fit, gain_pols, n, ew, ns) ==
    IF n > Len(gain_pols) THEN [status |-> "ok", fit |-> fit]
    ELSE IF <<ew>> \notin DOMAIN fit \/ <<ns>> \notin DOMAIN fit
         THEN [status |-> "KeyError", fit |-> fit]
         ELSE LET named == DictSet(DictSet(fit, <<ew, gain_pols[n]>>, fit[<<ew>>]),
                                   <<ns, gain_pols[n]>>, fit[<<ns>>])
              IN FourPolLoop(DictPop(DictPop(named, <<ew>>), <<ns>>), gain_pols, n + 1, ew, ns)

Called(obj, method, four_pol, status, attrs) ==
    [obj EXCEPT !.attrs = attrs, !.ncalls = obj.ncalls + 1,
                !.last = [method |-> method, four_pol |-> four_pol, status |-> status]]
SetAttrOnly(attrs, name, value) == DictSet(NoAttrs, name, value)
SetAttr(attrs, name, value) == DictSet(attrs, name, value)

\* np.moveaxis(list(map(lambda pk: list(map(lambda k: d[k], pk)), self._gain_keys)), 0, -1):
\* the stored dict laid out as an array, one row of antennas per gain polarization
ArrOf(obj, d) == [n \in DOMAIN obj.gain_pols |-> [a \in obj.ants |-> d[<<a, obj.gain_pols[n]>>]]]

\* "form result": self._<name> = odict(...) and then self._<name>_arr
Store(obj, attrs, name, arr_name, d) ==
    SetAttr(SetAttr(attrs, name, d), arr_name, ArrOf(obj, d))

\* AbsCal.delay_slope_lincal (2166-2205)
AbsCal_delay_slope_lincal(obj, time_avg, four_pol) ==
    LET Raise(e) == Called(obj, "delay_slope_lincal", four_pol, e, obj.attrs)
    IN IF ~obj.freqs THEN Raise("AttributeError")              \* 2167
       ELSE IF ~obj.antpos.given THEN Raise("AttributeError")   \* 625: antpos.keys()
       ELSE LET fit0 == FitOf(SlopeParams(obj.keys, four_pol, "T_ew", "T_ns"))
                sep == IF four_pol THEN FourPolLoop(fit0, obj.gain_pols, 1, "T_ew", "T_ns")
                       ELSE [status |-> "ok", fit |-> fit0]
            IN IF sep.status # "ok" THEN Raise(sep.status)
               ELSE LET fit == IF time_avg
                               THEN [n \in DOMAIN sep.fit |-> TimeAvgSol(sep.fit[n])]
                               ELSE sep.fit
                    IN IF \E k \in GainKeysOf(obj) : <<"T_ew", k[2]>> \notin DOMAIN fit
                       THEN Raise("KeyError")
                       ELSE Called(obj, "delay_slope_lincal", four_pol, "ok",
                                   Store(obj, obj.attrs, "_dly_slope", "_dly_slope_arr",
                                         [k \in GainKeysOf(obj) |->
                                             <<fit[<<"T_ew", k[2]>>], fit[<<"T_ns", k[2]>>]>>]))

\* AbsCal.TT_phs_logcal (2303-2325)
AbsCal_TT_phs_logcal(obj, zero_psi, four_pol) ==
    LET Raise(e) == Called(obj, "TT_phs_logcal", four_pol, e, obj.attrs)
    IN IF ~obj.antpos.given THEN Raise("AttributeError")        \* 202: antpos.keys()
       ELSE LET fit0 == FitOf(SlopeParams(obj.keys, four_pol, "Phi_ew", "Phi_ns")
                              \cup PsiParams(obj.keys))
                sep == IF four_pol THEN FourPolLoop(fit0, obj.gain_pols, 1, "Phi_ew", "Phi_ns")
                       ELSE [status |-> "ok", fit |-> fit0]
            IN IF sep.status # "ok" THEN Raise(sep.status)
               ELSE LET fit == sep.fit
                    IN IF \E k \in GainKeysOf(obj) : <<"psi", k[2]>> \notin DOMAIN fit
                       THEN Raise("KeyError")
                       ELSE Called(obj, "TT_phs_logcal", four_pol, "ok",
                                   Store(obj, Store(obj, obj.attrs, "_abs_psi", "_abs_psi_arr",
                                                    [k \in GainKeysOf(obj) |-> <<fit[<<"psi", k[2]>>]>>]),
                                         "_TT_Phi", "_TT_Phi_arr",
                                         [k \in GainKeysOf(obj) |->
                                             <<fit[<<"Phi_ew", k[2]>>], fit[<<"Phi_ns", k[2]>>]>>]))


\* the unknowns of the per-antenna equations: amp_logcal (318-319) names
\* the two antennas of every key; phs_logcal (387-388, 403-405) and
\* delay_lincal (519-520, 537-539, 549-556) add the reference antenna
EtaParams(keys) ==
    UNION {{<<"eta", k[1], split_pol(k[3])[1]>>, <<"eta", k[2], split_pol(k[3])[2]>>} : k \in keys}
RefParams(name, keys, refant) ==
    UNION {{<<name, k[1], split_pol(k[3])[1]>>, <<name, k[2], split_pol(k[3])[2]>>} : k \in keys}
        \cup {<<name, refant, gp>> : gp \in UNION {Range(split_pol(k[3])) : k \in keys}}
\* abs_amp_logcal (113-114): one eta per antenna polarization
AbsEtaParams(keys) == {<<"eta", gp>> : gp \in UNION {Range(split_pol(k[3])) : k \in keys}}

\* fit["<name>_<ant>_<pol>"] for every gain key (2029, 2060, 2131, 2134)
AntDict(obj, fit, name) == [k \in GainKeysOf(obj) |-> <<fit[<<name, k[1], k[2]>>]>>]
AntMissing(obj, fit, name) == \E k \in GainKeysOf(obj) : <<name, k[1], k[2]>> \notin DOMAIN fit

\* AbsCal.amp_logcal (2003-2030)
AbsCal_amp_logcal(obj) ==
    LET fit == FitOf(EtaParams(obj.keys))
    IN IF AntMissing(obj, fit, "eta")
       THEN Called(obj, "amp_logcal", FALSE, "KeyError", obj.attrs)
       ELSE Called(obj, "amp_logcal", FALSE, "ok",
                   Store(obj, obj.attrs, "_ant_eta", "_ant_eta_arr", AntDict(obj, fit, "eta")))

\* AbsCal.phs_logcal (2032-2068); avg replaces every solution by its
\* median over time and frequency
AbsCal_phs_logcal(obj, avg) ==
    LET fit == FitOf(RefParams("phi", obj.keys, obj.refant))
    IN IF AntMissing(obj, fit, "phi")
       THEN Called(obj, "phs_logcal", FALSE, "KeyError", obj.attrs)
       ELSE LET phi == AntDict(obj, fit, "phi")
                kept == IF avg THEN [k \in DOMAIN phi |-> <<TimeAvgSol(phi[k][1])>>] ELSE phi
            IN Called(obj, "phs_logcal", FALSE, "ok",
                      Store(obj, obj.attrs, "_ant_phi", "_ant_phi_arr", kept))

\* AbsCal.delay_lincal (2070-2135)
AbsCal_delay_lincal(obj, time_avg) ==
    LET Raise(e) == Called(obj, "delay_lincal", FALSE, e, obj.attrs)
    IN IF ~obj.freqs THEN Raise("AttributeError")              \* 2100-2101
       ELSE LET fit0 == FitOf(RefParams("tau", obj.keys, obj.refant)
                              \cup RefParams("phi", obj.keys, obj.refant))
            IN IF time_avg /\ (AntMissing(obj, fit0, "tau") \/ AntMissing(obj, fit0, "phi"))
               THEN Raise("KeyError")                           \* 2118-2128
               ELSE LET fit == IF time_avg
                               THEN [n \in DOMAIN fit0 |-> TimeAvgSol(fit0[n])]
                               ELSE fit0
                    IN IF AntMissing(obj, fit, "tau") THEN Raise("KeyError")
                       ELSE LET dly == Store(obj, obj.attrs, "_ant_dly", "_ant_dly_arr",
                                             AntDict(obj, fit, "tau"))
                            IN IF AntMissing(obj, fit, "phi")
                               THEN Called(obj, "delay_lincal", FALSE, "KeyError", dly)
                               ELSE Called(obj, "delay_lincal", FALSE, "ok",
                                           Store(obj, dly, "_ant_dly_phi", "_ant_dly_phi_arr",
                                                 AntDict(obj, fit, "phi")))

\* AbsCal.global_phase_slope_logcal (2207-2245); the equations of the
\* function (852-854) name Phi_ew and Phi_ns by the antenna polarizations
\* of the keys
AbsCal_global_phase_slope_logcal(obj) ==
    LET Raise(e) == Called(obj, "global_phase_slope_logcal", FALSE, e, obj.attrs)
    IN IF ~obj.antpos.given THEN Raise("AttributeError")        \* 834: antpos.keys()
       ELSE LET fit == FitOf(SlopeParams(obj.keys, FALSE, "Phi_ew", "Phi_ns"))
            IN IF \E k \in GainKeysOf(obj) : <<"Phi_ew", k[2]>> \notin DOMAIN fit
               THEN Raise("KeyError")
               ELSE Called(obj, "global_phase_slope_logcal", FALSE, "ok",
                           Store(obj, obj.attrs, "_phs_slope", "_phs_slope_arr",
                                 [k \in GainKeysOf(obj) |->
                                     <<fit[<<"Phi_ew", k[2]>>], fit[<<"Phi_ns", k[2]>>]>>]))

\* AbsCal.abs_amp_logcal (2247-2273)
AbsCal_abs_amp_logcal(obj) ==
    LET fit == FitOf(AbsEtaParams(obj.keys))
    IN IF \E k \in GainKeysOf(obj) : <<"eta", k[2]>> \notin DOMAIN fit
       THEN Called(obj, "abs_amp_logcal", FALSE, "KeyError", obj.attrs)
       ELSE Called(obj, "abs_amp_logcal", FALSE, "ok",
                   Store(obj, obj.attrs, "_abs_eta", "_abs_eta_arr",
                         [k \in GainKeysOf(obj) |-> <<fit[<<"eta", k[2]>>]>>]))

\* the result properties and custom_*_gain methods (2327-2762): the name,
\* the attribute its hasattr test reads, and the solver that stores it
ResultBases ==
    {<<"ant_eta", "amp_logcal">>, <<"ant_phi", "phs_logcal">>,
     <<"ant_dly", "delay_lincal">>, <<"ant_dly_phi", "delay_lincal">>,
     <<"dly_slope", "delay_slope_lincal">>, <<"phs_slope", "global_phase_slope_logcal">>,
     <<"abs_eta", "abs_amp_logcal">>, <<"abs_psi", "TT_phs_logcal">>,
     <<"TT_Phi", "TT_phs_logcal">>}
AttrName(base) ==
    CASE base = "ant_eta" -> "_ant_eta" [] base = "ant_phi" -> "_ant_phi"
      [] base = "ant_dly" -> "_ant_dly" [] base = "ant_dly_phi" -> "_ant_dly_phi"
      [] base = "dly_slope" -> "_dly_slope" [] base = "phs_slope" -> "_phs_slope"
      [] base = "abs_eta" -> "_abs_eta" [] base = "abs_psi" -> "_abs_psi"
      [] base = "TT_Phi" -> "_TT_Phi"
ArrName(base) ==
    CASE base = "ant_eta" -> "_ant_eta_arr" [] base = "ant_phi" -> "_ant_phi_arr"
      [] base = "ant_dly" -> "_ant_dly_arr" [] base = "ant_dly_phi" -> "_ant_dly_phi_arr"
      [] base = "dly_slope" -> "_dly_slope_arr" [] base = "phs_slope" -> "_phs_slope_arr"
      [] base = "abs_eta" -> "_abs_eta_arr" [] base = "abs_psi" -> "_abs_psi_arr"
      [] base = "TT_Phi" -> "_TT_Phi_arr"
\* the forms a result is offered in: <base>, <base>_gain, custom_<base>_gain
\* read the dict; <base>_arr, <base>_gain_arr and the two *_ant_*_arr read
\* the array.  Only the five global solvers have a custom_*_gain method.
Forms == {"dict", "gain", "custom_gain", "arr", "gain_arr", "ant_arr"}
HasForm(base, form) ==
    CASE form = "custom_gain" -> base \in {"dly_slope", "phs_slope", "abs_eta", "abs_psi", "TT_Phi"}
      [] form = "ant_arr" -> base \in {"dly_slope", "phs_slope"}
      [] OTHER -> TRUE
ResultProps ==
    {p \in {<<b[1], form, b[2]>> : b \in ResultBases, form \in Forms} : HasForm(p[1], p[2])}
TestedAttr(base, form) ==
    IF form \in {"dict", "gain", "custom_gain"} THEN AttrName(base) ELSE ArrName(base)

\* if hasattr(self, '<attr>'): return <what the body makes of the attribute>
\* else: return None
Result(obj, base, form) ==
    IF TestedAttr(base, form) \in DOMAIN obj.attrs
    THEN [form |-> form, of |-> obj.attrs[TestedAttr(base, form)]]
    ELSE PyNone

InitObj ==
    /\ ac_in \in [model : AcModelSets, data : AcDataSets, refant : RefantSamples,
                  antpos : {NotGiven, Given(AcAntpos)}, freqs : BOOLEAN,
                  min_bl_cut : CutSamples, max_bl_cut : CutSamples]
    /\ (ac_in.min_bl_cut = PyNone \/ ac_in.max_bl_cut = PyNone)
    /\ ac_obj = Idle
    /\ IdleButObj

\* obj = AbsCal(model, data, ...): the name is bound only if __init__ returns
Construct ==
    /\ ac_obj.status = "idle"
    /\ ac_obj' = AbsCalInit(ac_in.model, ac_in.data, ac_in.refant, ac_in.antpos, ac_in.freqs,
                            ac_in.min_bl_cut, ac_in.max_bl_cut)
    /\ UNCHANGED <<ac_in, butObj>>

CallDelaySlopeLincal ==
    /\ ac_obj.status = "ok" /\ ac_obj.ncalls < MaxCalls
    /\ \E time_avg, four_pol \in BOOLEAN :
          ac_obj' = AbsCal_delay_slope_lincal(ac_obj, time_avg, four_pol)
    /\ UNCHANGED <<ac_in, butObj>>

CallTTPhsLogcalMethod ==
    /\ ac_obj.status = "ok" /\ ac_obj.ncalls < MaxCalls
    /\ \E zero_psi, four_pol \in BOOLEAN :
          ac_obj' = AbsCal_TT_phs_logcal(ac_obj, zero_psi, four_pol)
    /\ UNCHANGED <<ac_in, butObj>>

CallAmpLogcalMethod ==
    /\ ac_obj.status = "ok" /\ ac_obj.ncalls < MaxCalls
    /\ ac_obj' = AbsCal_amp_logcal(ac_obj)
    /\ UNCHANGED <<ac_in, butObj>>

CallPhsLogcalMethod ==
    /\ ac_obj.status = "ok" /\ ac_obj.ncalls < MaxCalls
    /\ \E avg \in BOOLEAN : ac_obj' = AbsCal_phs_logcal(ac_obj, avg)
    /\ UNCHANGED <<ac_in, butObj>>

CallDelayLincalMethod ==
    /\ ac_obj.status = "ok" /\ ac_obj.ncalls < MaxCalls
    /\ \E time_avg \in BOOLEAN : ac_obj' = AbsCal_delay_lincal(ac_obj, time_avg)
    /\ UNCHANGED <<ac_in, butObj>>

CallGlobalPhaseSlopeLogcal ==
    /\ ac_obj.status = "ok" /\ ac_obj.ncalls < MaxCalls
    /\ ac_obj' = AbsCal_global_phase_slope_logcal(ac_obj)
    /\ UNCHANGED <<ac_in, butObj>>

CallAbsAmpLogcalMethod ==
    /\ ac_obj.status = "ok" /\ ac_obj.ncalls < MaxCalls
    /\ ac_obj' = AbsCal_abs_amp_logcal(ac_obj)
    /\ UNCHANGED <<ac_in, butObj>>

NextObj ==
    \/ Construct \/ CallDelaySlopeLincal \/ CallTTPhsLogcalMethod
    \/ CallAmpLogcalMethod \/ CallPhsLogcalMethod \/ CallDelayLincalMethod
    \/ CallGlobalPhaseSlopeLogcal \/ CallAbsAmpLogcalMethod

SpecObj == InitObj /\ [][NextObj]_vars

\* the keys model and data share, and the antennas of those keys
AcShared == ac_in.model \cap ac_in.data
AcSharedAnts == UNION {{k[1], k[2]} : k \in AcShared}

\* C11: when model and data share no key, or a refant is given that is not
\* an antenna of a shared key, the constructor raises an assertion error;
\* no object comes to exist, so no solver method ever runs on it.
C11_ConstructFails ==
    (/\ ac_obj.status # "idle"
     /\ \/ AcShared = {}
        \/ ac_in.refant # PyNone /\ ac_in.refant.v \notin AcSharedAnts) =>
        ac_obj.status = "AssertionError"

C11_Witness ==
    /\ ac_obj.status = "AssertionError" /\ ac_obj.at = 1958
    /\ AcShared # {} /\ ac_in.refant # PyNone /\ ac_in.refant.v \notin AcSharedAnts

\* C27: every result property and custom_*_gain method of a constructed
\* AbsCal object returns None until its own solver method has been called
\* on the object, and a call of one solver method changes what no other
\* solver's property returns.
C27_OwnResultsOnly ==
    /\ [](ac_obj.status = "ok" /\ ac_obj.ncalls = 0 =>
             \A p \in ResultProps : Result(ac_obj, p[1], p[2]) = PyNone)
    /\ [][ac_obj.status = "ok" /\ ac_obj'.status = "ok" =>
             \A p \in ResultProps :
                 Result(ac_obj', p[1], p[2]) # Result(ac_obj, p[1], p[2]) =>
                     p[3] = ac_obj'.last.method]_vars

C27_Witness ==
    /\ ac_obj.status = "ok" /\ ac_obj.ncalls = 2
    /\ ac_obj.last.method = "delay_slope_lincal" /\ ac_obj.last.status = "ok"
    /\ Result(ac_obj, "ant_eta", "gain") # PyNone
    /\ Result(ac_obj, "dly_slope", "arr") # PyNone
    /\ Result(ac_obj, "abs_psi", "custom_gain") = PyNone

\* a four_pol call of one of the two slope solvers on an object that has
\* what the solver needs (freqs, antpos) and more than one gain polarization
C17_Case ==
    /\ ac_obj.status = "ok" /\ ac_obj.ncalls > 0
    /\ ac_obj.last.four_pol /\ Len(ac_obj.gain_pols) > 1
    /\ ac_obj.antpos.given
    /\ ac_obj.last.method = "delay_slope_lincal" => ac_obj.freqs

\* C17: delay_slope_lincal(four_pol=True) and TT_phs_logcal(four_pol=True)
\* on data with more than one antenna polarization complete without error
\* and store, for every gain key, the one shared slope solution.
C17_FourPolShared ==
    C17_Case =>
        /\ ac_obj.last.status = "ok"
        /\ LET attr == IF ac_obj.last.method = "delay_slope_lincal"
                       THEN "_dly_slope" ELSE "_TT_Phi"
           IN /\ attr \in DOMAIN ac_obj.attrs
              /\ \A k1, k2 \in GainKeysOf(ac_obj) : ac_obj.attrs[attr][k1] = ac_obj.attrs[attr][k2]

(***************************************************************************)
(* Baseline.__eq__ (abscal.py 1410-1453), match_red_baselines (1456-1517)  *)
(* and utils.reverse_bl (utils.py 75-82).  Baseline vectors are integer    *)
(* [dx, dy, dz] in meters that lie along one axis, so that lengths, unit   *)
(* vectors and the angle between two vectors are exact: the angle is 0,    *)
(* pi/2 or pi.  Tolerances are whole meters.                               *)
(***************************************************************************)
MaxMatchKeys == 2
MaxCoord == 2

\* np.isclose(a, b, atol=atol) with the default rtol = 1e-5, on integers:
\* |a - b| <= atol + 1e-5 * |b|
RtolInv == 100000
Abs(x) == IF x < 0 THEN 0 - x ELSE x
IsClose(a, b, atol) == RtolInv * Abs(a - b) <= RtolInv * atol + Abs(b)

\* Baseline.len of an axis vector: sqrt(dx^2 + dy^2 + dz^2)
BlLen(bl) == CHOOSE l \in 0..(Abs(bl[1]) + Abs(bl[2]) + Abs(bl[3])) :
                 l * l = bl[1] * bl[1] + bl[2] * bl[2] + bl[3] * bl[3]
Dot(b1, b2) == b1[1] * b2[1] + b1[2] * b2[2] + b1[3] * b2[3]

\* pi * (1/2 - 1e-5) and pi * (1 - 1e-5), in microradians
HalfPiLessRtol == 1570765
PiLessRtol == 3141561
Micro == 1000000

\* line 1447: np.isclose(np.arccos(dot), np.pi, atol=tol / self.len), for
\* dot = Dot(b1, b2) / (len1 * len2) in {-1, 0, 1}; a zero vector has unit
\* nan, and nan is close to nothing
AngleIsPiNever(b1, b2, tol) == FALSE
AngleIsPi(b1, b2, tol) ==
    LET len1 == BlLen(b1)
        len2 == BlLen(b2)
    IN IF len1 = 0 \/ len2 = 0 THEN FALSE
       ELSE IF Dot(b1, b2) = 0 - len1 * len2 THEN TRUE       \* arccos(-1) = pi
       ELSE IF Dot(b1, b2) = 0 THEN Micro * tol >= HalfPiLessRtol * len1
       ELSE Micro * tol >= PiLessRtol * len1

PyMax(a, b) == IF a > b THEN a ELSE b

\* Baseline.__eq__: "True", "conjugated" or "False"
BaselineEq(B1, B2) ==
    LET tol == PyMax(B1.tol, B2.tol)
    IN IF IsClose(BlLen(B1.bl), BlLen(B2.bl), tol)
       THEN IF \A c \in 1..3 : IsClose(B1.bl[c], B2.bl[c], tol) THEN "True"
            ELSE IF AngleIsPi(B1.bl, B2.bl, tol) THEN "conjugated"
            ELSE "False"
       ELSE "False"

Baseline(bl, tol) == [bl |-> bl, tol |-> tol]
VecMinus(a, b) == <<a[1] - b[1], a[2] - b[2], a[3] - b[3]>>
VecNeg(a) == <<0 - a[1], 0 - a[2], 0 - a[3]>>

\* the first index of a sequence that satisfies Test, 0 if none (matches[0])
FirstIndex(q, Test(_)) ==
    IF \E n \in DOMAIN q : Test(q[n])
    THEN CHOOSE n \in DOMAIN q : Test(q[n]) /\ \A m \in 1..(n - 1) : ~Test(q[m])
    ELSE 0
\* lines 1497-1515: the loop over the model baselines from the i-th on.
\* new_model maps a data key to the model key whose visibility it holds and
\* whether that visibility was conjugated; log holds what echo was given.
RECURSIVE MatchLoop(_, _, _, _, _, _, _, _)
MatchLoop(i, model_keys, model_antpos, data_keys, data_antpos, tol, new_model, lg) ==
    IF i > Len(model_keys) THEN [status |-> "ok", value |-> new_model, log |-> lg]
    ELSE LET bl == Baseline(VecMinus(model_antpos[model_keys[i][2]],
                                     model_antpos[model_keys[i][1]]), tol)
             Cmp(k) == BaselineEq(bl, Baseline(VecMinus(data_antpos[k[2]], data_antpos[k[1]]), tol))
             Matches(k) == Cmp(k) \in {"True", "conjugated"}
             nmatch == Cardinality({j \in DOMAIN data_keys : Matches(data_keys[j])})
             first == FirstIndex(data_keys, Matches)
         IN IF nmatch = 0
            THEN MatchLoop(i + 1, model_keys, model_antpos, data_keys, data_antpos, tol, new_model,
                           Append(lg, [msg |-> "zero matches", key |-> model_keys[i]]))
            ELSE MatchLoop(i + 1, model_keys, model_antpos, data_keys, data_antpos, tol,
                           DictSet(new_model, data_keys[first],
                                   [model |-> model_keys[i],
                                    conj |-> Cmp(data_keys[first]) = "conjugated"]),
                           IF nmatch > 1
                           THEN Append(lg, [msg |-> "more than 1 match", key |-> model_keys[i]])
                           ELSE lg)

match_red_baselines(model_keys, model_antpos, data_keys, data_antpos, tol) ==
    MatchLoop(1, model_keys, model_antpos, data_keys, data_antpos, tol, NoAttrs, <<>>)

\* utils._comply_vispol (32-35): polnum2str(polstr2num(pol)); polstr2num
\* looks the string up without regard to case, polnum2str gives the one
\* compliant spelling
PolStrings == {"ee", "nn", "en", "ne", "EE", "NN", "EN", "NE"}
comply_vispol(pol) ==
    CASE pol \in {"ee", "EE"} -> "ee"
      [] pol \in {"nn", "NN"} -> "nn"
      [] pol \in {"en", "EN"} -> "en"
      [] pol \in {"ne", "NE"} -> "ne"
\* pyuvdata's conj_pol on compliant strings
conj_pol(pol) ==
    CASE pol = "ee" -> "ee" [] pol = "nn" -> "nn" [] pol = "en" -> "ne" [] pol = "ne" -> "en"

\* utils.reverse_bl (75-82)
ReverseBlDropsPol(bl) == <<bl[2], bl[1]>>
reverse_bl(bl) ==
    IF Len(bl) = 2 THEN <<bl[2], bl[1]>>
    ELSE <<bl[2], bl[1], conj_pol(comply_vispol(bl[3]))>>

\* utils.comply_bl (85-92)
comply_bl(bl) == IF Len(bl) = 2 THEN bl ELSE <<bl[1], bl[2], comply_vispol(bl[3])>>

AxisVectors ==
    {<<0, 0, 0>>} \cup UNION {{<<c, 0, 0>>, <<0, c, 0>>, <<0, 0, c>>,
                               <<0 - c, 0, 0>>, <<0, 0 - c, 0>>, <<0, 0, 0 - c>>} : c \in 1..MaxCoord}
TolSamples == 0..2

MatchAnts == {0, 1, 2}
DataAntpos == [a \in MatchAnts |-> <<a, 0, 0>>]
ModelAntposSamples ==
    {DataAntpos, [a \in MatchAnts |-> <<0, a, 0>>], [a \in MatchAnts |-> <<2 - a, 0, 0>>]}
MatchDataKeys == {<<0, 1, "ee">>, <<1, 2, "ee">>, <<0, 2, "ee">>, <<1, 0, "ee">>}
MatchModelKeys == {<<0, 1, "ee">>, <<0, 2, "ee">>, <<2, 1, "ee">>}
KeyOrders(universe) ==
    UNION {Orders(ks) : ks \in {x \in SUBSET universe : Cardinality(x) <= MaxMatchKeys}}

EqArgs == [fn : {"Baseline.__eq__"}, B1 : [bl : AxisVectors, tol : TolSamples],
           B2 : [bl : AxisVectors, tol : TolSamples]]
MatchArgs == [fn : {"match_red_baselines"}, model_keys : KeyOrders(MatchModelKeys),
              model_antpos : ModelAntposSamples, data_keys : KeyOrders(MatchDataKeys),
              data_antpos : {DataAntpos}, tol : {0, 1}]
ReverseArgs == [fn : {"reverse_bl"},
                bl : (MatchAnts \X MatchAnts) \cup (MatchAnts \X MatchAnts \X PolStrings)]

InitMatch ==
    /\ mr_in \in EqArgs \cup MatchArgs \cup ReverseArgs
    /\ mr_out = Idle
    /\ IdleButMatch

\* B1 == B2 and B2 == B1
CallBaselineEq ==
    /\ mr_out.status = "idle" /\ mr_in.fn = "Baseline.__eq__"
    /\ mr_out' = [status |-> "ok", fwd |-> BaselineEq(mr_in.B1, mr_in.B2),
                  rev |-> BaselineEq(mr_in.B2, mr_in.B1)]
    /\ UNCHANGED <<mr_in, butMatch>>

CallMatchRedBaselines ==
    /\ mr_out.status = "idle" /\ mr_in.fn = "match_red_baselines"
    /\ mr_out' = match_red_baselines(mr_in.model_keys, mr_in.model_antpos, mr_in.data_keys,
                                     mr_in.data_antpos, mr_in.tol)
    /\ UNCHANGED <<mr_in, butMatch>>

\* reverse_bl(bl) and reverse_bl(reverse_bl(bl))
CallReverseBl ==
    /\ mr_out.status = "idle" /\ mr_in.fn = "reverse_bl"
    /\ mr_out' = [status |-> "ok", once |-> reverse_bl(mr_in.bl),
                  twice |-> reverse_bl(reverse_bl(mr_in.bl))]
    /\ UNCHANGED <<mr_in, butMatch>>

NextMatch == CallBaselineEq \/ CallMatchRedBaselines \/ CallReverseBl

SpecMatch == InitMatch /\ [][NextMatch]_vars

\* the data keys a model key matches, and the lowest (ant1, ant2) of them
MatchedBy(mk) ==
    {dk \in Range(mr_in.data_keys) :
        BaselineEq(Baseline(VecMinus(mr_in.model_antpos[mk[2]], mr_in.model_antpos[mk[1]]), mr_in.tol),
                   Baseline(VecMinus(mr_in.data_antpos[dk[2]], mr_in.data_antpos[dk[1]]), mr_in.tol))
        # "False"}
LowestPair(ks) == CHOOSE k \in ks : \A o \in ks \ {k} : KeyLess(k, o)

\* C13: match_red_baselines never raises; a model baseline that matches no
\* data baseline contributes no entry, and one that matches several data
\* baselines contributes exactly one, under the lowest (ant1, ant2) key among
\* its matches: the output keys are those lowest keys, each holding the
\* visibility of a model baseline that matches it.
C13_LowestMatch ==
    (mr_out.status # "idle" /\ mr_in.fn = "match_red_baselines") =>
        /\ mr_out.status = "ok"
        /\ DOMAIN mr_out.value =
              {LowestPair(MatchedBy(mk)) : mk \in {m \in Range(mr_in.model_keys) : MatchedBy(m) # {}}}
        /\ \A dk \in DOMAIN mr_out.value : dk \in MatchedBy(mr_out.value[dk].model)

\* C14: Baseline(b, tol) and Baseline(-b, tol), b non-zero, compare as a
\* match ("True" or "conjugated") in both argument orders.
C14_NegatedMatches ==
    (/\ mr_out.status # "idle" /\ mr_in.fn = "Baseline.__eq__"
     /\ mr_in.B1.bl # <<0, 0, 0>> /\ mr_in.B2.bl = VecNeg(mr_in.B1.bl)
     /\ mr_in.B1.tol = mr_in.B2.tol) =>
        /\ mr_out.fwd \in {"True", "conjugated"}
        /\ mr_out.rev \in {"True", "conjugated"}

C14_Witness ==
    /\ mr_out.status = "ok" /\ mr_in.fn = "Baseline.__eq__"
    /\ mr_in.B1.bl = <<0, 2, 0>> /\ mr_in.B2.bl = <<0, -2, 0>>
    /\ mr_in.B1.tol = 1 /\ mr_in.B2.tol = 1
    /\ mr_out.fwd = "conjugated" /\ mr_out.rev = "conjugated"

MaxGroup == 2

G(re, im) == [k |-> "num", re |-> re, im |-> im, den |-> 1]
GNan == [k |-> "nan", re |-> 0, im |-> 0, den |-> 1]
GInf == [k |-> "inf", re |-> 0, im |-> 0, den |-> 1]

\* the redundant groups: the unit spacings (0,1), (1,2), ... and the double
\* spacing (0,2)
RedGroup1 == [n \in 1..MaxGroup |-> <<n - 1, n, "ee">>]
Reds == <<RedGroup1, <<(<<0, 2, "ee">>)>> >>
AvgKeys == Range(RedGroup1) \cup {<<0, 2, "ee">>}
AvgDataSamples == {G(2, 1), G(0, 4), GNan}
AvgWgtSamples == {Fin(0), Fin(1), Fin(2), NaN}

\* data[k] * wgts[k]
GTimes(d, w) ==
    IF d.k = "nan" \/ IsNan(w) THEN GNan ELSE G(d.re * w.v, d.im * w.v)

\* np.nansum over the members of a group: NaN terms count as zero
RECURSIVE NanSumG(_, _)
NanSumG(q, n) ==
    IF n > Len(q) THEN G(0, 0)
    ELSE LET rest == NanSumG(q, n + 1)
         IN IF q[n].k = "nan" THEN rest ELSE G(q[n].re + rest.re, q[n].im + rest.im)
RECURSIVE NanSumF(_, _)
NanSumF(q, n) ==
    IF n > Len(q) THEN 0
    ELSE IF IsNan(q[n]) THEN NanSumF(q, n + 1) ELSE q[n].v + NanSumF(q, n + 1)

\* line 1582: d /= (sum of the weights); 0 / 0 is NaN, x / 0 is infinite
GOver(d, den) ==
    IF den = 0 THEN (IF d.re = 0 /\ d.im = 0 THEN GNan ELSE GInf)
    ELSE [d EXCEPT !.den = den]

\* lines 1585-1588: the n-th root of the product, or the mean, of the weights
RECURSIVE ProdF(_, _)
ProdF(q, n) ==
    IF n > Len(q) THEN Fin(1)
    ELSE LET rest == ProdF(q, n + 1)
         IN IF IsNan(q[n]) \/ IsNan(rest) THEN NaN ELSE Fin(q[n].v * rest.v)
RECURSIVE SumF(_, _)
SumF(q, n) ==
    IF n > Len(q) THEN Fin(0)
    ELSE LET rest == SumF(q, n + 1)
         IN IF IsNan(q[n]) \/ IsNan(rest) THEN NaN ELSE Fin(q[n].v + rest.v)
GroupWgt(ws, broadcast_wgts) ==
    IF broadcast_wgts THEN [op |-> "root", of |-> ProdF(ws, 1), n |-> Len(ws)]
    ELSE [op |-> "over", of |-> SumF(ws, 1), n |-> Len(ws)]

\* lines 1566-1572
StripGroup(bl_group, dd) == SelectSeq(bl_group, LAMBDA k : k \in DOMAIN dd)
\* sorted(bl_group)[0]
FirstSorted(bl_group) == LowestPair(Range(bl_group))

\* lines 1579-1598 for one stripped group: the keys written and their value
AvgGroup(bl_group, dd, wgts, broadcast_wgts, mirror_red_data) ==
    LET ws == [n \in DOMAIN bl_group |-> wgts[bl_group[n]]]
        d == GOver(NanSumG([n \in DOMAIN bl_group |-> GTimes(dd[bl_group[n]], ws[n])], 1),
                   NanSumF(ws, 1))
    IN [keys |-> IF mirror_red_data THEN Range(bl_group) ELSE {FirstSorted(bl_group)},
        d |-> d, w |-> GroupWgt(ws, broadcast_wgts)]

avg_data_across_red_bls(dd, wgts, broadcast_wgts, mirror_red_data, reds) ==
    LET w == IF wgts.given THEN wgts.d ELSE [k \in DOMAIN dd |-> Fin(1)]     \* 1557-1558
        stripped == SelectSeq([n \in DOMAIN reds |-> StripGroup(reds[n], dd)],
                              LAMBDA g : Len(g) > 0)
        avg == [n \in DOMAIN stripped |->
                   AvgGroup(stripped[n], dd, w, broadcast_wgts, mirror_red_data)]
        GroupOf(k) == CHOOSE n \in DOMAIN avg : k \in avg[n].keys
        red_keys == UNION {avg[n].keys : n \in DOMAIN avg}
    IN [status |-> "ok",
        red_data |-> [k \in red_keys |-> avg[GroupOf(k)].d],
        red_wgts |-> [k \in red_keys |-> avg[GroupOf(k)].w],
        red_keys |-> red_keys]

AvgInputs(given) ==
    UNION {[dd : [ks -> AvgDataSamples],
            wgts : IF given THEN {Given(w) : w \in [ks -> AvgWgtSamples]} ELSE {NotGiven},
            broadcast_wgts : BOOLEAN, mirror_red_data : BOOLEAN] : ks \in SUBSET AvgKeys}

InitAvg ==
    /\ av_in \in AvgInputs(TRUE) \cup AvgInputs(FALSE)
    /\ av_out = Idle
    /\ IdleButAvg

CallAvgDataAcrossRedBls ==
    /\ av_out.status = "idle"
    /\ av_out' = avg_data_across_red_bls(av_in.dd, av_in.wgts, av_in.broadcast_wgts,
                                         av_in.mirror_red_data, Reds)
    /\ UNCHANGED <<av_in, butAvg>>

NextAvg == CallAvgDataAcrossRedBls

SpecAvg == InitAvg /\ [][NextAvg]_vars

\* C16: where every member of a redundant group has weight zero, the average
\* written for the group is finite.
C16_ZeroWeightSafe ==
    (av_out.status = "ok" /\ av_in.wgts.given) =>
        \A n \in DOMAIN Reds :
            LET bl_group == StripGroup(Reds[n], av_in.dd)
            IN (Len(bl_group) > 0 /\ \A k \in Range(bl_group) : av_in.wgts.d[k] = Fin(0)) =>
                   \A k \in Range(bl_group) \cap av_out.red_keys : av_out.red_data[k].k = "num"

(***************************************************************************)
(* get_d2m_time_map (abscal.py 2795-2829).  LSTs are whole numbers of      *)
(* TwoPi-ths of a turn; times are distinct Julian dates.                   *)
(***************************************************************************)
MaxTimes == 3
MaxModelTimes == 2
TwoPi == 4

LstSamples == 0..(TwoPi - 1)
DataTimesOf(n) == [i \in 1..n |-> 100 + i]
ModelTimesOf(n) == [i \in 1..n |-> 200 + i]

\* lines 2812-2813: lsts[lsts < lsts[0]] += 2 * np.pi
Unwrap(lsts) == [i \in DOMAIN lsts |-> IF lsts[i] < lsts[1] THEN lsts[i] + TwoPi ELSE lsts[i]]

\* line 2818: np.argmin(np.abs(model_lsts - dlst)), the first index of the minimum
ArgminAbs(model_lsts, dlst) ==
    CHOOSE m \in DOMAIN model_lsts :
        /\ \A o \in DOMAIN model_lsts : Abs(model_lsts[m] - dlst) <= Abs(model_lsts[o] - dlst)
        /\ \A o \in 1..(m - 1) : Abs(model_lsts[o] - dlst) > Abs(model_lsts[m] - dlst)

\* line 2820: np.abs(model_lsts[nearest_mind] < data_lsts[m2d_ind_map[nearest_mind]]);
\* the absolute value of a truth value is that truth value
Replaces(model_lst, paired_dlst) == model_lst < paired_dlst

\* lines 2816-2823: the loop over the data LSTs, from index dind on
RECURSIVE M2dLoop(_, _, _, _)
M2dLoop(dind, data_lsts, model_lsts, m2d_ind_map) ==
    IF dind > Len(data_lsts) THEN m2d_ind_map
    ELSE LET nearest_mind == ArgminAbs(model_lsts, data_lsts[dind])
         IN M2dLoop(dind + 1, data_lsts, model_lsts,
                    IF nearest_mind \in DOMAIN m2d_ind_map
                    THEN IF Replaces(model_lsts[nearest_mind],
                                     data_lsts[m2d_ind_map[nearest_mind]])
                         THEN DictSet(m2d_ind_map, nearest_mind, dind)
                         ELSE m2d_ind_map
                    ELSE DictSet(m2d_ind_map, nearest_mind, dind))

\* lines 2826-2828
D2mMapPairedOnly(data_times, model_times, m2d_ind_map) ==
    [t \in {data_times[m2d_ind_map[mind]] : mind \in DOMAIN m2d_ind_map} |->
        Fin(model_times[CHOOSE mind \in DOMAIN m2d_ind_map : data_times[m2d_ind_map[mind]] = t])]
D2mMap(data_times, model_times, m2d_ind_map) ==
    [t \in Range(data_times) |->
        IF \E mind \in DOMAIN m2d_ind_map : data_times[m2d_ind_map[mind]] = t
        THEN Fin(model_times[CHOOSE mind \in DOMAIN m2d_ind_map : data_times[m2d_ind_map[mind]] = t])
        ELSE PyNone]

get_d2m_time_map(data_times, data_lsts, model_times, model_lsts, unwrap) ==
    IF unwrap /\ (Len(data_lsts) = 0 \/ Len(model_lsts) = 0)
    THEN [status |-> "IndexError"]                      \* data_lsts[0], model_lsts[0]
    ELSE IF Len(data_lsts) > 0 /\ Len(model_lsts) = 0
    THEN [status |-> "ValueError"]                      \* np.argmin of an empty array
    ELSE LET dl == IF unwrap THEN Unwrap(data_lsts) ELSE data_lsts
             ml == IF unwrap THEN Unwrap(model_lsts) ELSE model_lsts
             m2d == M2dLoop(1, dl, ml, NoAttrs)
         IN [status |-> "ok", value |-> D2mMap(data_times, model_times, m2d),
             data_lsts |-> dl, model_lsts |-> ml]

InitTime ==
    /\ tm_in \in UNION {[data_times : {DataTimesOf(nd)}, data_lsts : [1..nd -> LstSamples],
                         model_times : {ModelTimesOf(nm)}, model_lsts : [1..nm -> LstSamples],
                         unwrap : BOOLEAN] : nd \in 0..MaxTimes, nm \in 0..MaxModelTimes}
    /\ tm_out = Idle
    /\ IdleButTime

CallGetD2mTimeMap ==
    /\ tm_out.status = "idle"
    /\ tm_out' = get_d2m_time_map(tm_in.data_times, tm_in.data_lsts, tm_in.model_times,
                                  tm_in.model_lsts, tm_in.unwrap)
    /\ UNCHANGED <<tm_in, butTime>>

NextTime == CallGetD2mTimeMap

SpecTime == InitTime /\ [][NextTime]_vars

\* the data indices whose nearest model LST is that of model index m
NearestTo(m) == {d \in DOMAIN tm_out.data_lsts : ArgminAbs(tm_out.model_lsts, tm_out.data_lsts[d]) = m}
PairedWith(m) == {d \in DOMAIN tm_in.data_times : tm_out.value[tm_in.data_times[d]] = Fin(tm_in.model_times[m])}

\* C18: the dictionary returned has exactly one entry per data time; every
\* model time is the value of at most one data time, and of exactly one of
\* the data times it is nearest to when there is any; every other data time
\* maps to None.
C18_OneToOne ==
    tm_out.status = "ok" =>
        /\ DOMAIN tm_out.value = Range(tm_in.data_times)
        /\ \A m \in DOMAIN tm_in.model_times :
              /\ Cardinality(PairedWith(m)) <= 1
              /\ PairedWith(m) \subseteq NearestTo(m)
              /\ NearestTo(m) # {} => PairedWith(m) # {}
        /\ \A d \in DOMAIN tm_in.data_times :
              (\A m \in DOMAIN tm_in.model_times : d \notin PairedWith(m)) =>
                  tm_out.value[tm_in.data_times[d]] = PyNone

C18_Witness ==
    /\ tm_out.status = "ok" /\ Len(tm_in.data_times) = 3 /\ Len(tm_in.model_times) = 2
    /\ tm_out.value[101] = Fin(201) /\ tm_out.value[102] = PyNone /\ tm_out.value[103] = Fin(202)

\* C19: when several data times have the same nearest model time, that model
\* time is paired with one of them whose LST is closest to its own, and the
\* others map to None.
C19_ClosestWins ==
    tm_out.status = "ok" =>
        \A m \in DOMAIN tm_in.model_times :
            Cardinality(NearestTo(m)) > 1 =>
                \E d \in NearestTo(m) :
                    /\ PairedWith(m) = {d}
                    /\ \A o \in NearestTo(m) :
                          Abs(tm_out.model_lsts[m] - tm_out.data_lsts[d])
                              <= Abs(tm_out.model_lsts[m] - tm_out.data_lsts[o])
                    /\ \A o \in NearestTo(m) \ {d} : tm_out.value[tm_in.data_times[o]] = PyNone

(***************************************************************************)
(* post_redcal_abscal_run: the flags it hands to the output calibration.   *)
(* A flag array is a function from time index to a row, and a row is the   *)
(* set of flagged channels, so that the OR of two rows is their union.     *)
(* The data are full data sets (data_is_redsol and model_is_redundant are  *)
(* both False).  What the files hold is drawn when it is read: the redcal  *)
(* flags, the file's polarizations and baselines and the time map at the   *)
(* start, the data flags and the model flags chunk by chunk.               *)
(***************************************************************************)
MaxRunTimes == 3
RunTinds == 1..MaxRunTimes
Chans == {1, 2}
FullRow == Chans
NoRow == {}
\* bool array + bool array
RowOr(r1, r2) == r1 \cup r2

RunAntNums == {0, 1, 2}
RunAnts == RunAntNums \X {"Jee", "Jnn"}
RunAntpos == [a \in RunAntNums |-> 15 * a]
DefaultRunMinBlCut == 1

\* utils.split_bl with the polarization split by split_pol
split_bl(bl) == <<(<<bl[1], split_pol(bl[3])[1]>>), (<<bl[2], split_pol(bl[3])[2]>>)>>

\* line 3135: np.ones_like of every redcal flag array
ones_like(rf) == [t \in DOMAIN rf |-> FullRow]

\* line 3149
pol_load_list(pols) == SelectSeq(pols, LAMBDA pol : split_pol(pol)[1] = split_pol(pol)[2])

\* line 3164: the time indices the time map pairs with a model time
matched_tinds(d2m_time_map) ==
    SelectSeq([t \in RunTinds |-> t], LAMBDA t : d2m_time_map[t] # PyNone)

\* lines 3166-3168: one group, or np.split into runs of nInt_to_load
CeilDiv(n, d) == (n + d - 1) \div d
tind_groups(matched, nInt_to_load) ==
    IF nInt_to_load = PyNone THEN <<matched>>
    ELSE LET n == nInt_to_load.v
             len == Len(matched)
         IN  [g \in 1..(IF len <= n THEN 1 ELSE CeilDiv(len, n)) |->
                 SubSeq(matched, (g - 1) * n + 1, IF g * n < len THEN g * n ELSE len)]

\* match_baselines._cut_bl_and_pol on a line of antennas
cut_bl_and_pol(bls, pols, min_bl_cut) ==
    {bl \in bls : /\ bl[3] \in pols
                  /\ Abs(RunAntpos[bl[2]] - RunAntpos[bl[1]]) >= min_bl_cut}

\* match_baselines for full data sets: what to load from the data, from the model
match_baselines(data_bls, model_bls, pols, min_bl_cut) ==
    LET d0 == cut_bl_and_pol(data_bls, pols, min_bl_cut)
        m0 == cut_bl_and_pol(model_bls, pols, min_bl_cut)
        d1 == {bl \in d0 : bl \in m0 \/ reverse_bl(bl) \in m0}
        m1 == {bl \in m0 : bl \in d1 \/ reverse_bl(bl) \in d1}
    IN  [data_bl_to_load |-> d1, model_bl_to_load |-> m1]

\* line 3190
DataAntsOf(bls) == UNION {Range(split_bl(bl)) : bl \in bls}

\* arr[tinds, :] = rows, the other rows of arr kept
SetRowsAll(arr, tinds, rows) == [t \in DOMAIN arr |-> IF t \in tinds THEN rows[t] ELSE NoRow]
SetRows(arr, tinds, rows) == [t \in DOMAIN arr |-> IF t \in tinds THEN rows[t] ELSE arr[t]]

\* lines 3236-3240 for every antenna of the loaded data
UpdateResults(out, data_ants, tinds, rc_flags, model_flag_waterfall) ==
    [out EXCEPT
        !.abscal_gains = [ant \in DOMAIN @ |->
            IF ant \in data_ants
                THEN SetRows(@[ant], tinds, [t \in tinds |-> "redcal*delta"])
                ELSE @[ant]],
        !.abscal_flags = [ant \in DOMAIN @ |->
            IF ant \in data_ants
                THEN SetRows(@[ant], tinds,
                             [t \in tinds |-> RowOr(rc_flags[ant][t], model_flag_waterfall[t])])
                ELSE @[ant]]]

\* what the files can hold
RcFlagSamples ==
    {[ant \in RunAnts |->
        [t \in RunTinds |-> IF ant[1] = 0 /\ t = 1 THEN r ELSE IF ant[1] = 2 THEN FullRow ELSE NoRow]] :
     r \in {NoRow, {2}}}
HdPolSamples == {<<"nn", "ee">>, <<"ee", "en", "nn">>}
HdBls(pols) == {<<0, 1, pol>> : pol \in Range(pols)} \cup {<<2, 2, pol>> : pol \in Range(pols)}
ModelBlSamples == SUBSET {<<0, 1, "ee">>, <<1, 0, "nn">>}
\* the data times with a model time: one stretch of the data's integrations
D2mSamples ==
    {[t \in RunTinds |-> IF t \in S THEN Fin(t) ELSE PyNone] :
        S \in {I \in SUBSET RunTinds : \A a, b \in I : \A c \in a..b : c \in I}}
NIntSamples == {PyNone, Fin(2)}
WaterfallRows == {NoRow, {1}}

RunStage(stage, pol, grp) == [stage |-> stage, pol |-> pol, grp |-> grp]

\* lines 3128-3137: the redcal solution is read, the results start totally flagged
InitRun ==
    /\ IdleButRun
    /\ \E rc_flags \in RcFlagSamples, pols \in HdPolSamples, model_bls \in ModelBlSamples,
          d2m \in D2mSamples, nInt \in NIntSamples, any_model \in BOOLEAN :
          /\ rn_in = [rc_flags |-> rc_flags, pols |-> pols, bls |-> HdBls(pols),
                      model_bls |-> model_bls, d2m_time_map |-> d2m, nInt_to_load |-> nInt,
                      matched_model_files |-> any_model, min_bl_cut |-> DefaultRunMinBlCut]
          /\ rn_out = [abscal_gains |-> [ant \in RunAnts |-> [t \in RunTinds |-> "redcal"]],
                       abscal_flags |-> [ant \in RunAnts |-> ones_like(rc_flags[ant])],
                       chunks |-> <<>>, rephased |-> FALSE, written |-> FALSE]
    /\ rn_pc = RunStage("match", 0, 0)

RunPols == pol_load_list(rn_in.pols)
RunMatched == matched_tinds(rn_in.d2m_time_map)
RunGroups == tind_groups(RunMatched, rn_in.nInt_to_load)

\* lines 3140-3168: with no model file at all straight to the save, with no
\* matched time (or no polarization to load) straight to the reference antenna
MatchTimes ==
    /\ rn_pc.stage = "match"
    /\ rn_pc' = IF ~rn_in.matched_model_files THEN RunStage("save", 0, 0)
                ELSE IF Len(RunMatched) = 0 \/ Len(RunPols) = 0 THEN RunStage("refant", 0, 0)
                ELSE RunStage("pol", 1, 0)
    /\ UNCHANGED <<rn_in, rn_out, butRun>>

AfterPol(n) == IF n < Len(RunPols) THEN RunStage("pol", n + 1, 0) ELSE RunStage("refant", 0, 0)

\* lines 3171-3182: the baselines of one polarization
PolStep ==
    /\ rn_pc.stage = "pol"
    /\ LET m == match_baselines(rn_in.bls, rn_in.model_bls, {RunPols[rn_pc.pol]}, rn_in.min_bl_cut)
       IN  rn_pc' = IF m.data_bl_to_load = {} \/ m.model_bl_to_load = {}
                        THEN AfterPol(rn_pc.pol)
                        ELSE RunStage("chunk", rn_pc.pol, 1)
    /\ UNCHANGED <<rn_in, rn_out, butRun>>

\* lines 3184-3242: one group of time indices of one polarization
ChunkStep ==
    /\ rn_pc.stage = "chunk"
    /\ LET pol == RunPols[rn_pc.pol]
           m == match_baselines(rn_in.bls, rn_in.model_bls, {pol}, rn_in.min_bl_cut)
           tinds == Range(RunGroups[rn_pc.grp])
           data_ants == DataAntsOf(m.data_bl_to_load)
       IN  \E all_flagged \in BOOLEAN, model_flag_waterfall \in [tinds -> WaterfallRows] :
              /\ all_flagged => \A t \in tinds : model_flag_waterfall[t] = NoRow
              /\ LET entry == [pol |-> pol, tinds |-> tinds, data_ants |-> data_ants,
                               calibrated |-> ~all_flagged,
                               model_flag_waterfall |-> model_flag_waterfall]
                     logged == [rn_out EXCEPT !.chunks = Append(@, entry)]
                 IN  rn_out' = IF all_flagged THEN logged
                               ELSE UpdateResults(logged, data_ants, tinds, rn_in.rc_flags,
                                                  model_flag_waterfall)
    /\ rn_pc' = IF rn_pc.grp < Len(RunGroups)
                    THEN RunStage("chunk", rn_pc.pol, rn_pc.grp + 1)
                    ELSE AfterPol(rn_pc.pol)
    /\ UNCHANGED <<rn_in, butRun>>

\* lines 3245-3247: the gains are rephased to the reference antenna, the flags
\* are only read
RefantStep ==
    /\ rn_pc.stage = "refant"
    /\ rn_out' = [rn_out EXCEPT !.rephased = TRUE]
    /\ rn_pc' = RunStage("save", 0, 0)
    /\ UNCHANGED <<rn_in, butRun>>

\* lines 3250-3255
SaveStep ==
    /\ rn_pc.stage = "save"
    /\ rn_out' = [rn_out EXCEPT !.written = TRUE]
    /\ rn_pc' = RunStage("done", 0, 0)
    /\ UNCHANGED <<rn_in, butRun>>

NextRun == MatchTimes \/ PolStep \/ ChunkStep \/ RefantStep \/ SaveStep
SpecRun == InitRun /\ [][NextRun]_vars

\* the chunks processed so far that reached the update of lines 3236-3240
\* and cover the row (ant, t)
CalibratedAt(ant, t) ==
    {n \in DOMAIN rn_out.chunks :
        /\ rn_out.chunks[n].calibrated
        /\ ant \in rn_out.chunks[n].data_ants
        /\ t \in rn_out.chunks[n].tinds}

MaxDlyFreqs == 3
DlyChans == 1..MaxDlyFreqs
DlyTimes == {1, 2}
Peak == F("peak", 0)
SomeAngle == F("angle", 0)
Mean(num, den) == [k |-> "fin", num |-> num, den |-> den]

\* lines 484-492 (646-654): ratio where it is NaN or Inf becomes 0.0 ...
ZeroNonFinite(ratio) ==
    [t \in DOMAIN ratio |-> [c \in DOMAIN ratio[t] |->
        IF ratio[t][c].k \in {"nan", "inf"} THEN ZZero ELSE ratio[t][c]]]
\* ... and wgts[k] is zeroed at the same samples
ZeroWgtsKeepAll(ratio, w) == w
ZeroWgts(ratio, w) ==
    [t \in DOMAIN w |-> [c \in DOMAIN w[t] |->
        IF ratio[t][c].k \in {"nan", "inf"} THEN 0 ELSE w[t][c]]]

RECURSIVE RowSum(_, _)
RowSum(row, n) == IF n = 0 THEN 0 ELSE row[n] + RowSum(row, n - 1)

\* utils.py 132-140: dw = data * wgts, channel by channel, is it zero
DwIsZero(ratio_row, w_row) == \A c \in DOMAIN ratio_row : ratio_row[c].k = "zero" \/ w_row[c] = 0

\* utils.py 209-227: Quinn's shift d of the peak bin; on an all-zero spectrum
\* k0 / k1 is 0/0 and d[~np.isfinite(d)] = 0. makes the shift 0
interp_peak_shift(all_zero) == IF all_zero THEN Fin(0) ELSE Peak

\* utils.py 142-145: fftfreqs[inds] + bin_shifts * dtau, for one integration
FftDlyOf(ratio_row, w_row) ==
    IF DwIsZero(ratio_row, w_row) THEN interp_peak_shift(TRUE) ELSE interp_peak_shift(FALSE)

\* utils.py 147-156: np.angle(sum(wgts * data * phasor) / sum(wgts)): the
\* quotient is 0/0 when the weights of the integration sum to zero
FftOffsetOf(ratio_row, w_row) ==
    IF RowSum(w_row, Len(w_row)) = 0 THEN NaN
    ELSE IF DwIsZero(ratio_row, w_row) THEN Fin(0)
    ELSE SomeAngle

\* lines 498-502: rwgts = np.nanmean(wgts[k], axis=1); where the delay is NaN
\* the delay, the weight and the offset are set to zero
RatioWgt(w_row, dly) ==
    IF IsNan(dly) THEN Mean(0, Len(w_row)) ELSE Mean(RowSum(w_row, Len(w_row)), Len(w_row))
RatioDelay(dly) == IF IsNan(dly) THEN Fin(0) ELSE dly
RatioOffset(offset, dly) == IF IsNan(dly) THEN Fin(0) ELSE offset

\* lines 472-475: np.ones_like(data[k]) when wgts is None
DlyDefaultWgts(wgts, dd) ==
    IF wgts.given THEN wgts.d
    ELSE [k \in DOMAIN dd |-> [t \in DOMAIN dd[k] |-> [c \in DOMAIN dd[k][t] |-> 1]]]

\* lines 481-506 (643-666) for one key
RatioLoop(dk, mk, wk) ==
    LET raw == [t \in DOMAIN dk |-> [c \in DOMAIN dk[t] |-> ZDiv(dk[t][c], mk[t][c])]]
        ratio == ZeroNonFinite(raw)
        w == ZeroWgts(raw, wk)
        dly == [t \in DOMAIN dk |-> FftDlyOf(ratio[t], w[t])]
        offset == [t \in DOMAIN dk |-> FftOffsetOf(ratio[t], w[t])]
    IN [wgts |-> w,
        ratio_delays |-> [t \in DOMAIN dk |-> RatioDelay(dly[t])],
        ratio_offsets |-> [t \in DOMAIN dk |-> RatioOffset(offset[t], dly[t])],
        ratio_wgts |-> [t \in DOMAIN dk |-> RatioWgt(w[t], dly[t])]]

\* the unknowns of the equations of lines 519-520 and 537-539 (549-556)
AntParams(name, keys, refant) ==
    UNION {{<<name, k[1], split_pol(k[3])[1]>>, <<name, k[2], split_pol(k[3])[2]>>} : k \in keys}
        \cup {<<name, refant, gp>> : gp \in UNION {Range(split_pol(k[3])) : k \in keys}}

\* what the caller sees of its arrays afterwards
CallerWgts(wgts, loops) ==
    IF wgts.given
    THEN Wgts([k \in DOMAIN wgts.d |-> IF k \in DOMAIN loops THEN loops[k].wgts ELSE wgts.d[k]])
    ELSE wgts

delay_lincal(model, dd, wgts, solve_offsets) ==
    LET keys == SharedKeys(model, dd)
        w0 == DlyDefaultWgts(wgts, dd)
        loops == [k \in keys |-> RatioLoop(dd[k], model[k], w0[k])]
        refant == Sorted(keys)[1][1]
    IN [status |-> "ok", fn |-> "delay_lincal",
        tau_solve |-> [ls_data |-> [k \in keys |-> loops[k].ratio_delays],
                       ls_wgts |-> [k \in keys |-> loops[k].ratio_wgts]],
        \* lines 547-561: the offsets are solved for and merged into fit
        \* whatever solve_offsets is; the argument is not read
        phi_solve |-> [ls_data |-> [k \in keys |-> loops[k].ratio_offsets],
                       ls_wgts |-> [k \in keys |-> loops[k].ratio_wgts]],
        fit |-> AntParams("tau", keys, refant) \cup AntParams("phi", keys, refant),
        caller_model |-> model, caller_data |-> dd, caller_wgts |-> CallerWgts(wgts, loops)]

\* delay_slope_lincal(four_pol=False, return_gains=False)
delay_slope_lincal(model, dd, wgts) ==
    LET keys == SharedKeys(model, dd)
        w0 == DlyDefaultWgts(wgts, dd)
        loops == [k \in keys |-> RatioLoop(dd[k], model[k], w0[k])]
    IN [status |-> "ok", fn |-> "delay_slope_lincal",
        tau_solve |-> [ls_data |-> [k \in keys |-> loops[k].ratio_delays],
                       ls_wgts |-> [k \in keys |-> loops[k].ratio_wgts]],
        phi_solve |-> [ls_data |-> [k \in {} |-> <<>>], ls_wgts |-> [k \in {} |-> <<>>]],
        fit |-> UNION {{<<"T_ew", gp>>, <<"T_ns", gp>>} :
                          gp \in UNION {Range(split_pol(k[3])) : k \in keys}},
        caller_model |-> model, caller_data |-> dd, caller_wgts |-> CallerWgts(wgts, loops)]

\* the arrays of a call: one baseline, two integrations
DlyWgtValues == {0, 1, 2}
DlyWgtRows == [DlyChans -> DlyWgtValues]
DlyFlatRows == {[c \in DlyChans |-> v] : v \in {0, 1}}
DlyWgtArrays == {<<r1, r2>> : r1 \in DlyWgtRows, r2 \in DlyFlatRows}
DlyArray(first) == [t \in DlyTimes |-> [c \in DlyChans |-> IF t = 1 /\ c = 1 THEN first ELSE Z(0, 0)]]
DlyDataArrays == {DlyArray(z) : z \in {Z(2, 1), ZNan, ZZero}}
DlyModelArrays == {DlyArray(z) : z \in {Z(0, 0), ZZero}}
DlyWgtArgs == {NoWgts} \cup {Wgts([k \in {K1} |-> w]) : w \in DlyWgtArrays}

InitDelay ==
    /\ IdleButDelay
    /\ \E d \in DlyDataArrays, m \in DlyModelArrays, w \in DlyWgtArgs, so \in BOOLEAN :
          dl_in = [model |-> [k \in {K1} |-> m], data |-> [k \in {K1} |-> d],
                   wgts |-> w, solve_offsets |-> so]
    /\ dl_out = Idle

CallDelayLincal ==
    /\ dl_in # Idle /\ dl_out.status = "idle"
    /\ dl_out' = delay_lincal(dl_in.model, dl_in.data, dl_in.wgts, dl_in.solve_offsets)
    /\ UNCHANGED <<dl_in, butDelay>>

CallDelaySlopeLincalFn ==
    /\ dl_in # Idle /\ dl_out.status = "idle"
    /\ dl_out' = delay_slope_lincal(dl_in.model, dl_in.data, dl_in.wgts)
    /\ UNCHANGED <<dl_in, butDelay>>

NextDelay == CallDelayLincal \/ CallDelaySlopeLincalFn
SpecDelay == InitDelay /\ [][NextDelay]_vars

IsPhi(param) == param[1] = "phi"
IsTau(param) == param[1] = "tau"

\* C21: the fit delay_lincal returns holds phase offsets (phi keys) only
\* when solve_offsets is True; with solve_offsets=False it holds only the
\* per-antenna delays (tau keys).
C21_OffsetsOnlyIfAsked ==
    (dl_out.status = "ok" /\ dl_out.fn = "delay_lincal") =>
        /\ \E param \in dl_out.fit : IsTau(param)
        /\ dl_in.solve_offsets => \E param \in dl_out.fit : IsPhi(param)
        /\ ~dl_in.solve_offsets => \A param \in dl_out.fit : IsTau(param)

NonZeroChans(t) == {c \in DlyChans : dl_out.caller_wgts.d[K1][t][c] # 0}

\* C22: in delay_lincal and delay_slope_lincal the weight of a baseline's
\* delay for an integration is zero when fewer than two channels of that
\* integration have non-zero input weight, and the same constant for every
\* other integration, whatever the magnitudes of the input weights.
C22_EqualOrZeroWeight ==
    (dl_out.status = "ok" /\ dl_in.wgts.given) =>
        LET w == dl_out.tau_solve.ls_wgts[K1]
        IN /\ \A t \in DlyTimes : Cardinality(NonZeroChans(t)) < 2 => w[t].num = 0
           /\ \A t, u \in DlyTimes :
                  (Cardinality(NonZeroChans(t)) >= 2 /\ Cardinality(NonZeroChans(u)) >= 2)
                      => w[t].num * w[u].den = w[u].num * w[t].den

AllZeroWgts(t) ==
    IF dl_in.wgts.given THEN \A c \in DlyChans : dl_in.wgts.d[K1][t][c] = 0 ELSE FALSE

\* C25: for an integration whose weights are zero in every channel,
\* delay_lincal hands delay 0, phase offset 0 and weight 0 to its linear
\* solves; no NaN or Inf reaches the delay solve or the offset solve.
C25_FlaggedIntegrationIsZero ==
    (dl_out.status = "ok" /\ dl_out.fn = "delay_lincal") =>
        \A t \in DlyTimes :
            /\ AllZeroWgts(t) =>
                  /\ dl_out.tau_solve.ls_data[K1][t] = Fin(0)
                  /\ dl_out.tau_solve.ls_wgts[K1][t].num = 0
                  /\ dl_out.phi_solve.ls_data[K1][t] = Fin(0)
                  /\ dl_out.phi_solve.ls_wgts[K1][t].num = 0
            /\ dl_out.tau_solve.ls_data[K1][t].k \notin {"nan", "inf"}
            /\ dl_out.phi_solve.ls_data[K1][t].k \notin {"nan", "inf"}

(***************************************************************************)
(* frf.timeavg_waterfall (frf.py 20-189): the windows, their flags and     *)
(* their summed nsamples.  flags is indexed [time][channel], times from 1; *)
(* nsamples is None (all ones), rephase is False and lsts is not fed.      *)
(***************************************************************************)
MaxAvgTimes == 4

\* lines 131-137
NavgTimes(Ntimes, Navg) == (Ntimes + Navg - 1) \div Navg

\* lines 149-153: data[start:end] of window i (from 0), as time indices from 1
AvgWindow(i, Navg, Ntimes) == {t \in 1..Ntimes : i * Navg < t /\ t <= (i + 1) * Navg}

\* np.min over the time axis of a boolean array
MinOverTime(f, window, c) == \A t \in window : f[t][c]

\* lines 119, 169-174: w = flagw * nsamples**2 and its sum over the window
SumOfWgts(f, window, c) == Cardinality({t \in window : ~f[t][c]})

timeavg_waterfall(flags, Navg) ==
    LET Ntimes == Len(flags)
    IN IF ~(Navg <= Ntimes /\ Navg > 0)
       THEN [status |-> "AssertionError", win_flags |-> <<>>, avg_nsamples |-> <<>>,
             avg_data |-> <<>>]
       ELSE LET wins == [n \in 1..NavgTimes(Ntimes, Navg) |-> AvgWindow(n - 1, Navg, Ntimes)]
            IN [status |-> "ok",
                win_flags |-> [n \in DOMAIN wins |->
                                  [c \in Chans |-> MinOverTime(flags, wins[n], c)]],
                avg_nsamples |-> [n \in DOMAIN wins |->
                                     [c \in Chans |-> SumOfWgts(flags, wins[n], c)]],
                \* the input samples that enter the weighted mean
                avg_data |-> [n \in DOMAIN wins |->
                                 [c \in Chans |-> {t \in wins[n] : ~flags[t][c]}]]]

InitWaterfall ==
    /\ IdleButWaterfall
    /\ \E Ntimes \in 1..MaxAvgTimes :
          \E flags \in [1..Ntimes -> [Chans -> BOOLEAN]], Navg \in 0..(Ntimes + 1) :
              ta_in = [flags |-> flags, Navg |-> Navg]
    /\ ta_out = Idle

CallTimeavgWaterfall ==
    /\ ta_out.status = "idle"
    /\ ta_out' = timeavg_waterfall(ta_in.flags, ta_in.Navg)
    /\ UNCHANGED <<ta_in, butWaterfall>>

NextWaterfall == CallTimeavgWaterfall
SpecWaterfall == InitWaterfall /\ [][NextWaterfall]_vars

\* C23: win_flags is the logical OR of the input flags over each averaging
\* window: an output sample is flagged whenever at least one input sample
\* of its window is flagged.
C23_WinFlagsAreOr ==
    ta_out.status = "ok" =>
        \A n \in DOMAIN ta_out.win_flags : \A c \in Chans :
            ta_out.win_flags[n][c]
                = (\E t \in AvgWindow(n - 1, ta_in.Navg, Len(ta_in.flags)) : ta_in.flags[t][c])

(***************************************************************************)
(* match_baselines (abscal.py 2832-2919) with its three returned values,   *)
(* in the exact-match branch and in the redundant branches.  The antennas  *)
(* of the data and of the model stand on the same line (RunAntpos); the    *)
(* polarizations are same-handed, so reversing a key keeps its pol.        *)
(* redcal.get_reds is the redundancy-group collaborator: it groups the     *)
(* antenna pairs of equal separation, every pair of a group pointing the   *)
(* same way; which of the two ways is the collaborator's choice.           *)
(***************************************************************************)
\* lines 2881-2882
ExactMap(d1, m1) ==
    [bl \in {b \in d1 : b \in m1 \/ reverse_bl(b) \in m1} |->
        IF reverse_bl(bl) \in m1 THEN reverse_bl(bl) ELSE bl]

\* line 2887
AntOffset == 1 + CHOOSE a \in RunAntNums : \A b \in RunAntNums : b <= a

Shift(bl, by) == <<bl[1] + by, bl[2] + by, bl[3]>>

\* redcal.get_reds(joint_antpos, pols=pols) after the filter of line 2892,
\* which drops the pairs of one data and one model antenna: one group per
\* separation and polarization, pointing up the line or (flip) down it
JointReds(pols, flip) ==
    {LET up == {<<i, j, pol>> : <<i, j>> \in
                   {ij \in RunAntNums \X RunAntNums : RunAntpos[ij[2]] - RunAntpos[ij[1]] = sep}}
         both == up \cup {Shift(bl, AntOffset) : bl \in up}
     IN IF flip THEN {reverse_bl(bl) : bl \in both} ELSE both :
     sep \in {RunAntpos[j] - RunAntpos[i] : i, j \in RunAntNums} \ {0 - RunAntpos[j] : j \in RunAntNums},
     pol \in pols} \ {{}}

\* lines 2893-2896
FilterRed(red, d0, m0) ==
    {bl \in red : \/ bl \in d0 \/ reverse_bl(bl) \in d0
                  \/ Shift(bl, 0 - AntOffset) \in m0
                  \/ reverse_bl(Shift(bl, 0 - AntOffset)) \in m0}

DataCandidates(red) == {bl \in red : bl[1] < AntOffset}
ModelCandidates(red) == {Shift(bl, 0 - AntOffset) : bl \in {b \in red : b[1] >= AntOffset}}

\* lines 2899-2911: the assertions of the loop, then the map it builds
RedsAssert(reds, data_is_redsol) ==
    \A red \in reds :
        /\ Cardinality(ModelCandidates(red)) <= 1
        /\ Cardinality(DataCandidates(red)) <= 1 \/ ~data_is_redsol
RedMap(reds) ==
    LET mapped == {red \in reds : Cardinality(ModelCandidates(red)) = 1}
    IN [bl \in UNION {DataCandidates(red) : red \in mapped} |->
           CHOOSE m \in UNION {ModelCandidates(red) : red \in {r \in mapped : bl \in r}} : TRUE]

MatchBaselines(data_bls, model_bls, pols, data_is_redsol, model_is_redundant, min_bl_cut, flip) ==
    IF data_is_redsol /\ ~model_is_redundant
    THEN [status |-> "NotImplementedError"]
    ELSE IF ~data_is_redsol /\ ~model_is_redundant
    THEN LET m == match_baselines(data_bls, model_bls, pols, min_bl_cut)
         IN [status |-> "ok", data_bl_to_load |-> m.data_bl_to_load,
             model_bl_to_load |-> m.model_bl_to_load,
             data_to_model_bl_map |-> ExactMap(m.data_bl_to_load, m.model_bl_to_load)]
    ELSE LET d0 == cut_bl_and_pol(data_bls, pols, min_bl_cut)
             m0 == cut_bl_and_pol(model_bls, pols, min_bl_cut)
             reds == {FilterRed(red, d0, m0) : red \in JointReds(pols, flip)} \ {{}}
         IN IF ~RedsAssert(reds, data_is_redsol)
            THEN [status |-> "AssertionError"]
            ELSE LET map == RedMap(reds)
                     values == {map[bl] : bl \in DOMAIN map}
                 IN [status |-> "ok",
                     \* lines 2913-2916
                     data_bl_to_load |->
                         {bl \in d0 : bl \in DOMAIN map \/ reverse_bl(bl) \in DOMAIN map},
                     model_bl_to_load |->
                         {bl \in m0 : bl \in values \/ reverse_bl(bl) \in values},
                     data_to_model_bl_map |-> map]

MbPairs == {<<0, 1>>, <<1, 0>>, <<1, 2>>, <<0, 2>>}
MbDataBls == SUBSET {<<ij[1], ij[2], "ee">> : ij \in MbPairs}
MbModelBls == SUBSET {<<0, 1, "ee">>, <<1, 0, "ee">>, <<0, 2, "ee">>}

InitBaselines ==
    /\ IdleButBaselines
    /\ \E data_bls \in MbDataBls, model_bls \in MbModelBls, redsol, redundant, flip \in BOOLEAN :
          mb_in = [data_bls |-> data_bls, model_bls |-> model_bls, pols |-> {"ee"},
                   data_is_redsol |-> redsol, model_is_redundant |-> redundant,
                   min_bl_cut |-> DefaultRunMinBlCut, flip |-> flip]
    /\ mb_out = Idle

CallMatchBaselines ==
    /\ mb_out.status = "idle"
    /\ mb_out' = MatchBaselines(mb_in.data_bls, mb_in.model_bls, mb_in.pols, mb_in.data_is_redsol,
                                mb_in.model_is_redundant, mb_in.min_bl_cut, mb_in.flip)
    /\ UNCHANGED <<mb_in, butBaselines>>

NextBaselines == CallMatchBaselines
SpecBaselines == InitBaselines /\ [][NextBaselines]_vars

\* C26: in the exact-match branch and in the redundant branches every
\* baseline of the returned data_bl_to_load is a key of the returned
\* data_to_model_bl_map, so data_to_model_bl_map[bl] never misses a key for
\* a loaded data baseline.
C26_LoadedAreMapped ==
    mb_out.status = "ok" =>
        \A bl \in mb_out.data_bl_to_load : bl \in DOMAIN mb_out.data_to_model_bl_map

\* the same, for the exact-match branch alone
C26_ExactBranch ==
    (mb_out.status = "ok" /\ ~mb_in.data_is_redsol /\ ~mb_in.model_is_redundant) =>
        \A bl \in mb_out.data_bl_to_load : bl \in DOMAIN mb_out.data_to_model_bl_map

(***************************************************************************)
(* The six function-level solvers side by side: what a caller finds in     *)
(* the model, data and weights it passed once the call has returned.       *)
(***************************************************************************)
InitSolvers == InitLogcal \/ InitDelay
NextSolvers == NextLogcal \/ NextDelay
SpecSolvers == InitSolvers /\ [][NextSolvers]_vars

LogcalReturned == lc_out.status \in {"ok", "solved"}
DelayReturned == dl_out.status = "ok"

\* data[k] / model[k] at one sample, as the caller could compute it
LogcalRatio(k, s) == ZDiv(lc_in.data[k][s], lc_in.model[k][s])
DelayRatio(k, t, c) == ZDiv(dl_in.data[k][t][c], dl_in.model[k][t][c])
RatioNonFinite(z) == z.k \in {"nan", "inf"}

ArraysUntouched ==
    /\ LogcalReturned =>
          lc_out.caller_model = lc_in.model /\ lc_out.caller_data = lc_in.data
    /\ DelayReturned =>
          dl_out.caller_model = dl_in.model /\ dl_out.caller_data = dl_in.data
NoWgtsNoChange ==
    /\ LogcalReturned /\ ~lc_in.wgts.given => lc_out.caller_wgts = lc_in.wgts
    /\ DelayReturned /\ ~dl_in.wgts.given => dl_out.caller_wgts = dl_in.wgts

\* C28: no function-level solver modifies the model or data arrays it is
\* given; the only caller-visible mutation is that entries of the caller's
\* weight arrays are set to zero where data/model is NaN or Inf.
C28_ZeroedWhereRatioNonFinite ==
    /\ ArraysUntouched /\ NoWgtsNoChange
    /\ LogcalReturned /\ lc_in.wgts.given =>
          /\ DOMAIN lc_out.caller_wgts.d = DOMAIN lc_in.wgts.d
          /\ \A k \in DOMAIN lc_in.wgts.d : \A s \in Samples :
                lc_out.caller_wgts.d[k][s] # lc_in.wgts.d[k][s] =>
                    /\ lc_out.caller_wgts.d[k][s] = Fin(0)
                    /\ k \in SharedKeys(lc_in.model, lc_in.data)
                    /\ RatioNonFinite(LogcalRatio(k, s))
    /\ DelayReturned /\ dl_in.wgts.given =>
          /\ DOMAIN dl_out.caller_wgts.d = DOMAIN dl_in.wgts.d
          /\ \A k \in DOMAIN dl_in.wgts.d : \A t \in DlyTimes : \A c \in DlyChans :
                dl_out.caller_wgts.d[k][t][c] # dl_in.wgts.d[k][t][c] =>
                    /\ dl_out.caller_wgts.d[k][t][c] = 0
                    /\ k \in SharedKeys(dl_in.model, dl_in.data)
                    /\ RatioNonFinite(DelayRatio(k, t, c))

\* C28 as the code has it: model and data are left alone, nothing changes
\* when no weights are passed, and an entry of the caller's weights is set
\* to zero exactly where the quantity the solver fits is NaN or Inf: the
\* ratio data/model for the delay solvers, its angle for the phase solvers,
\* and log|data/model| for the amplitude solvers, which is -Inf also where
\* data/model is zero.  Every other entry keeps its value.
C28_ZeroedWhereFitQuantityNonFinite ==
    /\ ArraysUntouched /\ NoWgtsNoChange
    /\ LogcalReturned /\ lc_in.wgts.given =>
          /\ DOMAIN lc_out.caller_wgts.d = DOMAIN lc_in.wgts.d
          /\ \A k \in DOMAIN lc_in.wgts.d : \A s \in Samples :
                lc_out.caller_wgts.d[k][s] =
                    IF /\ k \in SharedKeys(lc_in.model, lc_in.data)
                       /\ ~IsFinite(Observed(lc_out.solver, LogcalRatio(k, s)))
                    THEN Fin(0) ELSE lc_in.wgts.d[k][s]
    /\ DelayReturned /\ dl_in.wgts.given =>
          /\ DOMAIN dl_out.caller_wgts.d = DOMAIN dl_in.wgts.d
          /\ \A k \in DOMAIN dl_in.wgts.d : \A t \in DlyTimes : \A c \in DlyChans :
                dl_out.caller_wgts.d[k][t][c] =
                    IF /\ k \in SharedKeys(dl_in.model, dl_in.data)
                       /\ RatioNonFinite(DelayRatio(k, t, c))
                    THEN 0 ELSE dl_in.wgts.d[k][t][c]

\* an amplitude solver has zeroed a weight at a sample where data/model is zero
C28_Witness ==
    /\ LogcalReturned /\ lc_in.wgts.given
    /\ lc_out.solver \in {"abs_amp_logcal", "amp_logcal"}
    /\ \E s \in Samples :
          /\ LogcalRatio(K1, s) = ZZero
          /\ lc_in.wgts.d[K1][s] = Fin(1)
          /\ lc_out.caller_wgts.d[K1][s] = Fin(0)

====
